---- MODULE Spec2Model ----
(***************************************************************************)
(* Transaction anomaly pipeline: column detection (columnMapper.js), row   *)
(* normalisation (normalizer.js), batch statistics (statistics.js), risk   *)
(* scoring (riskCalculator.js) and the orchestration of a batch            *)
(* (anomalyService.js, uploadController.js).                               *)
(*                                                                         *)
(* Numbers.  JavaScript numbers are modelled in exact arithmetic.  Money   *)
(* is an integer number of thousandths (AmountScale units per currency     *)
(* unit) wherever it comes out of parseAmount, and a plain integer in the  *)
(* scoring specifications.  Quotients (mean, weekly average, category      *)
(* average) are kept as fractions [n, d] with d > 0, and the standard      *)
(* deviation by its square, so that every comparison the code makes is     *)
(* decided without rounding.                                               *)
(***************************************************************************)
EXTENDS Integers, Sequences, FiniteSets, TLC

VARIABLES
    stage,          \* position of the operation under study
    transaction,    \* calculateRisk: the transaction argument
    stats,          \* calculateRisk: the stats argument
    risk,           \* calculateRisk: the returned object
    probe,          \* classifyRisk: two scores and the levels returned for them
    transactions,   \* analyzeTransactions: the transactions argument
    analyzed,       \* analyzeTransactions: the array built by transactions.map
    normalCount,    \* analyzeTransactions: the three distribution counters
    mediumCount,
    highCount,
    riskDistribution, \* uploadStatement: the riskDistribution of the response
    headers,        \* detectColumns: the headers argument
    mapping,        \* detectColumns: the local mapping
    usedHeaders,    \* detectColumns: the local usedHeaders (indices)
    detection,      \* detectColumns: what the last call returned or threw
    previous,       \* what the call before the last returned or threw
    calls,          \* number of calls of detectColumns made on headers
    tzHours,        \* the environment: local time is UTC + tzHours
    rows,           \* normalizeRows: the rows argument
    position,       \* normalizeRows: the index in rows of the next row of the loop
    normalized,     \* normalizeRows: the local normalized
    stored,         \* uploadStatement: the documents Transaction.insertMany has stored
    response,       \* uploadStatement: the status and body sent with res
    file,           \* uploadStatement: req.file
    cleanups,       \* uploadStatement: the paths cleanupFile has been called with
    sent            \* uploadStatement: the number of responses sent with res

riskVars == <<transaction, risk, probe>>
batchVars == <<transactions, analyzed, normalCount, mediumCount, highCount, riskDistribution>>
columnVars == <<headers, mapping, usedHeaders, detection, previous, calls>>
normVars == <<tzHours, rows, position, normalized>>
uploadVars == <<stored, response, file, cleanups, sent>>
vars == <<stage, stats, riskVars, batchVars, columnVars, normVars, uploadVars>>

\* The value of a variable that the specification at hand does not use.
Idle == "idle"

(***************************************************************************)
(* Exact fractions                                                         *)
(***************************************************************************)
Frac(n, d) == [n |-> n, d |-> d]
FracGT(a, b) == a.n * b.d > b.n * a.d
FracPos(a) == a.n > 0
Abs(x) == IF x < 0 THEN -x ELSE x

Range(seq) == { seq[i] : i \in DOMAIN seq }

RECURSIVE SumSeq(_)
SumSeq(seq) == IF seq = <<>> THEN 0 ELSE Head(seq) + SumSeq(Tail(seq))

\* The sum of the values of an object with numeric values
RECURSIVE SumValues(_)
SumValues(obj) ==
    IF DOMAIN obj = {} THEN 0
    ELSE LET k == CHOOSE x \in DOMAIN obj : TRUE
         IN  obj[k] + SumValues([x \in DOMAIN obj \ {k} |-> obj[x]])

(***************************************************************************)
(* riskCalculator.js                                                       *)
(***************************************************************************)
ZSCORE_MODERATE == 2
ZSCORE_EXTREME == 3
POINTS_ZSCORE_MODERATE == 25
POINTS_ZSCORE_EXTREME == 40
POINTS_HIGH_VALUE == 30
POINTS_UNUSUAL_HOUR == 15
POINTS_CATEGORY_SPIKE == 20
POINTS_FREQUENCY_SPIKE == 20
HIGH_VALUE_MULTIPLIER == 2
\* 0.40 and 0.30 of the source, in hundredths
CATEGORY_SPIKE_PERCENT == 40
FREQUENCY_SPIKE_PERCENT == 30
RISK_MEDIUM_MIN == 30
RISK_HIGH_MIN == 60

\* The factor strings pushed by calculateRisk, without the formatted numbers.
F_EXTREME == "Extreme amount deviation"
F_MODERATE == "High amount deviation"
F_HIGH_VALUE == "High value transaction"
F_UNUSUAL_HOUR == "Unusual hour"
F_CATEGORY == "Category spending spike"
F_FREQUENCY == "Weekly frequency spike"

\* classifyRisk with the boundaries excluded
classifyRiskStrict(score) ==
    IF score > RISK_HIGH_MIN THEN "High"
    ELSE IF score > RISK_MEDIUM_MIN THEN "Medium"
    ELSE "Normal"

classifyRisk(score) ==
    IF score >= RISK_HIGH_MIN THEN "High"
    ELSE IF score >= RISK_MEDIUM_MIN THEN "Medium"
    ELSE "Normal"

\* The z-score block without its guard
StdDevUnguarded(st) == TRUE

\* stats.stdDev > 0
StdDevPositive(st) == st.stdDevSq.n > 0

\* Math.abs((amount - stats.mean) / stats.stdDev) > k, for stats.stdDev > 0:
\* |amount - mean|^2 > k^2 * stdDev^2, cleared of denominators.
ZScoreAbove(amount, st, k) ==
    LET dev == amount * st.mean.d - st.mean.n
    IN  dev * dev * st.stdDevSq.d > k * k * st.stdDevSq.n * st.mean.d * st.mean.d

Add(acc, points, factor) ==
    [score |-> acc.score + points, riskFactors |-> Append(acc.riskFactors, factor)]

\* The two z-score tests as independent ifs
ZScoreSignalNoElse(acc, amount, st) ==
    IF StdDevPositive(st)
    THEN LET a1 == IF ZScoreAbove(amount, st, ZSCORE_EXTREME)
                   THEN Add(acc, POINTS_ZSCORE_EXTREME, F_EXTREME) ELSE acc
         IN  IF ZScoreAbove(amount, st, ZSCORE_MODERATE)
             THEN Add(a1, POINTS_ZSCORE_MODERATE, F_MODERATE) ELSE a1
    ELSE acc

\* 1. Amount Deviation (Z-Score)
ZScoreSignal(acc, amount, st) ==
    IF StdDevPositive(st)
    THEN IF ZScoreAbove(amount, st, ZSCORE_EXTREME)
         THEN Add(acc, POINTS_ZSCORE_EXTREME, F_EXTREME)
         ELSE IF ZScoreAbove(amount, st, ZSCORE_MODERATE)
              THEN Add(acc, POINTS_ZSCORE_MODERATE, F_MODERATE)
              ELSE acc
    ELSE acc

\* The high-value branch adding the points of another signal
HighValueSignalWrongPoints(acc, amount, st) ==
    IF FracPos(st.mean) /\ FracGT(Frac(amount, 1), Frac(st.mean.n * HIGH_VALUE_MULTIPLIER, st.mean.d))
    THEN Add(acc, POINTS_ZSCORE_MODERATE, F_HIGH_VALUE)
    ELSE acc

\* 2. High Value Detection
HighValueSignal(acc, amount, st) ==
    IF FracPos(st.mean) /\ FracGT(Frac(amount, 1), Frac(st.mean.n * HIGH_VALUE_MULTIPLIER, st.mean.d))
    THEN Add(acc, POINTS_HIGH_VALUE, F_HIGH_VALUE)
    ELSE acc

\* transaction.date instanceof Date && !isNaN(transaction.date.getTime()):
\* a date is a record whose field valid is FALSE for an Invalid Date.
IsDated(tx) == tx.date.valid

\* 3. Unusual Time Detection (stats.peakHours is always a Set object here, so
\* the truthiness test on it always passes)
UnusualHourSignal(acc, tx, st) ==
    IF IsDated(tx) /\ Cardinality(st.peakHours) > 0
    THEN IF tx.date.hour \notin st.peakHours
         THEN Add(acc, POINTS_UNUSUAL_HOUR, F_UNUSUAL_HOUR)
         ELSE acc
    ELSE acc

\* transaction.category || "Uncategorized"
CategoryOf(tx) == IF tx.category = "" THEN "Uncategorized" ELSE tx.category

\* The category test reading the transaction's own amount in place of the
\* total of its category
CategorySpikeSignalOwnAmount(acc, tx, st) ==
    LET category == CategoryOf(tx)
    IN  IF category \in DOMAIN st.categoryAvgSpending
        THEN LET catAvg == st.categoryAvgSpending[category]
             IN  IF FracPos(catAvg)
                    /\ FracGT(Frac(Abs(tx.amount) * 100, 1),
                              Frac(catAvg.n * (100 + CATEGORY_SPIKE_PERCENT), catAvg.d))
                 THEN Add(acc, POINTS_CATEGORY_SPIKE, F_CATEGORY)
                 ELSE acc
        ELSE acc

\* 4. Category Spike Detection
CategorySpikeSignal(acc, tx, st) ==
    LET category == CategoryOf(tx)
    IN  IF category \in DOMAIN st.categoryAvgSpending
        THEN LET catTotal == IF category \in DOMAIN st.categoryTotals
                             THEN st.categoryTotals[category] ELSE 0
                 catAvg == st.categoryAvgSpending[category]
             IN  IF FracPos(catAvg)
                    /\ FracGT(Frac(catTotal * 100, 1),
                              Frac(catAvg.n * (100 + CATEGORY_SPIKE_PERCENT), catAvg.d))
                 THEN Add(acc, POINTS_CATEGORY_SPIKE, F_CATEGORY)
                 ELSE acc
        ELSE acc

\* 5. Frequency Change Detection
FrequencySpikeSignal(acc, st) ==
    IF FracPos(st.weeklyAvg)
       /\ FracGT(Frac(st.currentWeekCount * 100, 1),
                 Frac(st.weeklyAvg.n * (100 + FREQUENCY_SPIKE_PERCENT), st.weeklyAvg.d))
    THEN Add(acc, POINTS_FREQUENCY_SPIKE, F_FREQUENCY)
    ELSE acc

\* The amount taken with its sign
ScoredAmountSigned(tx) == tx.amount

\* const amount = Math.abs(transaction.amount)
ScoredAmount(tx) == Abs(tx.amount)

calculateRisk(tx, st) ==
    LET amount == ScoredAmount(tx)
        a0 == [score |-> 0, riskFactors |-> <<>>]
        a1 == ZScoreSignal(a0, amount, st)
        a2 == HighValueSignal(a1, amount, st)
        a3 == UnusualHourSignal(a2, tx, st)
        a4 == CategorySpikeSignal(a3, tx, st)
        a5 == FrequencySpikeSignal(a4, st)
    IN  [anomalyScore |-> a5.score,
         riskLevel |-> classifyRisk(a5.score),
         riskFactors |-> a5.riskFactors]

(***************************************************************************)
(* Scoring one transaction against one statistics object                   *)
(***************************************************************************)
BatchIdle ==
    /\ transactions = Idle /\ analyzed = Idle
    /\ normalCount = Idle /\ mediumCount = Idle /\ highCount = Idle
    /\ riskDistribution = Idle

ColumnsIdle ==
    /\ headers = Idle /\ mapping = Idle /\ usedHeaders = Idle
    /\ detection = Idle /\ previous = Idle /\ calls = Idle

NormIdle == tzHours = Idle /\ rows = Idle /\ position = Idle /\ normalized = Idle

UploadIdle ==
    /\ stored = Idle /\ response = Idle
    /\ file = Idle /\ cleanups = Idle /\ sent = Idle

MaxAmount == 7
MaxMean == 3
MaxStdDev == 2
MaxWeekCount == 3
MaxProbe == 70

RiskHours == {3, 14}
RiskCategories == {"", "Food"}
RiskPeakHours == {{}, {14}, 0..23}
RiskCategoryStats ==
    { [totals |-> <<>>, avg |-> <<>>] } \cup
    { [totals |-> ("Food" :> t), avg |-> ("Food" :> Frac(a, 1))] : t \in {0, 14, 15}, a \in {0, 10} } \cup
    { [totals |-> ("Uncategorized" :> 15), avg |-> ("Uncategorized" :> Frac(21, 2))] }

RiskTransactions ==
    [amount : (-MaxAmount)..MaxAmount,
     date : [valid : BOOLEAN, hour : RiskHours],
     category : RiskCategories]

RiskStats ==
    { [mean |-> Frac(m, 1), stdDevSq |-> Frac(s * s, 1), peakHours |-> p,
       categoryTotals |-> c.totals, categoryAvgSpending |-> c.avg,
       weeklyAvg |-> Frac(w, 1), currentWeekCount |-> k] :
         m \in 0..MaxMean, s \in 0..MaxStdDev, p \in RiskPeakHours,
         c \in RiskCategoryStats, w \in {0, 2}, k \in (MaxWeekCount - 1)..MaxWeekCount }

InitRisk ==
    /\ stage = "risk:call"
    /\ transaction \in RiskTransactions
    /\ stats \in RiskStats
    /\ risk = Idle
    /\ probe = Idle
    /\ BatchIdle
    /\ ColumnsIdle
    /\ NormIdle
    /\ UploadIdle

InitProbe ==
    /\ stage = "classify:call"
    /\ transaction = Idle /\ stats = Idle /\ risk = Idle
    /\ BatchIdle
    /\ ColumnsIdle
    /\ NormIdle
    /\ UploadIdle
    /\ probe \in { [lo |-> a, hi |-> b, loLevel |-> Idle, hiLevel |-> Idle] :
                     a \in 0..MaxProbe, b \in 0..MaxProbe }
    /\ probe.lo <= probe.hi

Init == InitRisk \/ InitProbe

CalculateRisk ==
    /\ stage = "risk:call"
    /\ risk' = calculateRisk(transaction, stats)
    /\ stage' = "risk:returned"
    /\ UNCHANGED <<transaction, stats, probe, batchVars, columnVars, normVars, uploadVars>>

ClassifyRisk ==
    /\ stage = "classify:call"
    /\ probe' = [probe EXCEPT !.loLevel = classifyRisk(probe.lo),
                              !.hiLevel = classifyRisk(probe.hi)]
    /\ stage' = "classify:returned"
    /\ UNCHANGED <<transaction, stats, risk, batchVars, columnVars, normVars, uploadVars>>

Next == CalculateRisk \/ ClassifyRisk

Spec == Init /\ [][Next]_vars

(***************************************************************************)
(* Claims about calculateRisk and classifyRisk (specification Spec)        *)
(***************************************************************************)
\* The point value the scoring table gives to the signal a factor names.
PointsOfFactor(f) ==
    CASE f = F_EXTREME -> 40
      [] f = F_MODERATE -> 25
      [] f = F_HIGH_VALUE -> 30
      [] f = F_UNUSUAL_HOUR -> 15
      [] f = F_CATEGORY -> 20
      [] f = F_FREQUENCY -> 20

\* |amount - mean| / stdDev > k for the transaction and statistics in the state
StateZAbove(k) ==
    LET dev == Abs(transaction.amount) * stats.mean.d - stats.mean.n
    IN  /\ stats.stdDevSq.n > 0
        /\ dev * dev * stats.stdDevSq.d > k * k * stats.stdDevSq.n * stats.mean.d * stats.mean.d

\* The condition of the signal table under which the signal of a factor fires.
SignalFires(f) ==
    CASE f = F_EXTREME -> StateZAbove(3)
      [] f = F_MODERATE -> StateZAbove(2) /\ ~StateZAbove(3)
      [] f = F_HIGH_VALUE ->
            /\ stats.mean.n > 0
            /\ Abs(transaction.amount) * stats.mean.d > 2 * stats.mean.n
      [] f = F_UNUSUAL_HOUR ->
            /\ transaction.date.valid
            /\ stats.peakHours # {}
            /\ transaction.date.hour \notin stats.peakHours
      [] f = F_CATEGORY ->
            LET c == IF transaction.category = "" THEN "Uncategorized" ELSE transaction.category
            IN  /\ c \in DOMAIN stats.categoryAvgSpending
                /\ stats.categoryAvgSpending[c].n > 0
                /\ (IF c \in DOMAIN stats.categoryTotals THEN stats.categoryTotals[c] ELSE 0)
                      * 10 * stats.categoryAvgSpending[c].d > 14 * stats.categoryAvgSpending[c].n
      [] f = F_FREQUENCY ->
            /\ stats.weeklyAvg.n > 0
            /\ stats.currentWeekCount * 10 * stats.weeklyAvg.d > 13 * stats.weeklyAvg.n

EvaluationOrder == <<F_EXTREME, F_MODERATE, F_HIGH_VALUE, F_UNUSUAL_HOUR, F_CATEGORY, F_FREQUENCY>>

\* C1: the anomalyScore returned by calculateRisk is the sum of the point
\* values of the factors in riskFactors, and riskFactors lists exactly the
\* signals whose condition holds, once each, in evaluation order.
C1_ScoreIsSumOfFactors ==
    stage = "risk:returned" =>
        /\ risk.anomalyScore = SumSeq([i \in DOMAIN risk.riskFactors |-> PointsOfFactor(risk.riskFactors[i])])
        /\ risk.riskFactors = SelectSeq(EvaluationOrder, SignalFires)

\* A call in which four signals fired, the z-score one and the high-value one among them.
C1_Witness ==
    /\ stage = "risk:returned"
    /\ Len(risk.riskFactors) = 4
    /\ F_MODERATE \in Range(risk.riskFactors)
    /\ F_HIGH_VALUE \in Range(risk.riskFactors)

\* The threshold table of the classification.
LevelMatchesTable(score, level) ==
    /\ level \in {"Normal", "Medium", "High"}
    /\ level = "High" <=> score >= 60
    /\ level = "Medium" <=> (30 <= score /\ score < 60)
    /\ level = "Normal" <=> score < 30

LevelRank(level) == CASE level = "Normal" -> 0 [] level = "Medium" -> 1 [] level = "High" -> 2

\* C2: classifyRisk follows the threshold table (High from 60, Medium from 30
\* to 59, Normal below 30), never returns a lower level for a higher score, and
\* the riskLevel of calculateRisk is the table's level of its anomalyScore.
C2_ClassificationTable ==
    /\ stage = "classify:returned" =>
          /\ LevelMatchesTable(probe.lo, probe.loLevel)
          /\ LevelMatchesTable(probe.hi, probe.hiLevel)
          /\ LevelRank(probe.loLevel) <= LevelRank(probe.hiLevel)
    /\ stage = "risk:returned" => LevelMatchesTable(risk.anomalyScore, risk.riskLevel)

\* The two boundary scores classified in one probe.
C2_Witness ==
    /\ stage = "classify:returned"
    /\ probe.lo = 30 /\ probe.loLevel = "Medium"
    /\ probe.hi = 60 /\ probe.hiLevel = "High"

\* C4: the anomalyScore returned by calculateRisk never exceeds 105.
C4_ScoreAtMost105 ==
    stage = "risk:returned" => risk.anomalyScore <= 105

\* C5: at most one of the two z-score factors is recorded; above 3 it is the
\* extreme one alone, and the moderate one is recorded exactly when 2 < z <= 3.
C5_ZTiersExclusive ==
    stage = "risk:returned" =>
        LET fs == Range(risk.riskFactors)
        IN  /\ ~(F_EXTREME \in fs /\ F_MODERATE \in fs)
            /\ StateZAbove(3) => (F_EXTREME \in fs /\ F_MODERATE \notin fs)
            /\ F_MODERATE \in fs <=> (StateZAbove(2) /\ ~StateZAbove(3))
            /\ F_EXTREME \in fs => StateZAbove(3)

\* A call whose z-score exceeds 3: the extreme factor was recorded.
C5_Witness ==
    /\ stage = "risk:returned"
    /\ StateZAbove(3)
    /\ risk.riskFactors[1] = F_EXTREME

\* The category under which the transaction in the state is scored
StateCategory == IF transaction.category = "" THEN "Uncategorized" ELSE transaction.category

\* The statistics in the state have no categoryAvgSpending entry for the
\* transaction's category, or a zero one
NoCategoryAverage ==
    \/ StateCategory \notin DOMAIN stats.categoryAvgSpending
    \/ stats.categoryAvgSpending[StateCategory].n = 0

\* C13: a zero divisor disables its own signal only: with stdDev = 0 no
\* z-score factor is recorded, with mean = 0 no high-value factor, with
\* weeklyAvg = 0 no frequency factor, without a non-zero categoryAvgSpending
\* entry no category factor; a signal whose own divisor is not zero is decided
\* by its own comparison whatever the other divisors are, and calculateRisk
\* returns a score and a level.
C13_ZeroDivisorGuards ==
    stage = "risk:returned" =>
        LET fs == Range(risk.riskFactors)
            amount == Abs(transaction.amount)
        IN  /\ stats.stdDevSq.n = 0 => (F_EXTREME \notin fs /\ F_MODERATE \notin fs)
            /\ stats.mean.n = 0 => F_HIGH_VALUE \notin fs
            /\ stats.weeklyAvg.n = 0 => F_FREQUENCY \notin fs
            /\ NoCategoryAverage => F_CATEGORY \notin fs
            /\ stats.stdDevSq.n > 0 =>
                  ((F_EXTREME \in fs \/ F_MODERATE \in fs) <=> StateZAbove(2))
            /\ stats.mean.n > 0 =>
                  (F_HIGH_VALUE \in fs <=> amount * stats.mean.d > 2 * stats.mean.n)
            /\ stats.weeklyAvg.n > 0 =>
                  (F_FREQUENCY \in fs <=>
                      stats.currentWeekCount * 10 * stats.weeklyAvg.d > 13 * stats.weeklyAvg.n)
            /\ ~NoCategoryAverage =>
                  (F_CATEGORY \in fs <=>
                      (IF StateCategory \in DOMAIN stats.categoryTotals
                       THEN stats.categoryTotals[StateCategory] ELSE 0)
                          * 10 * stats.categoryAvgSpending[StateCategory].d
                        > 14 * stats.categoryAvgSpending[StateCategory].n)
            /\ F_UNUSUAL_HOUR \in fs <=>
                  (transaction.date.valid /\ stats.peakHours # {}
                   /\ transaction.date.hour \notin stats.peakHours)
            /\ risk.anomalyScore \in 0..125
            /\ risk.riskLevel \in {"Normal", "Medium", "High"}

\* Every divisor is zero and the amount differs from the mean, and the one
\* signal without a divisor has fired
C13_Witness ==
    /\ stage = "risk:returned"
    /\ stats.stdDevSq.n = 0 /\ stats.mean.n = 0 /\ stats.weeklyAvg.n = 0
    /\ NoCategoryAverage
    /\ Abs(transaction.amount) > 0
    /\ risk.riskFactors = <<F_UNUSUAL_HOUR>>
    /\ risk.anomalyScore = 15

(***************************************************************************)
(* statistics.js                                                           *)
(***************************************************************************)
calculateMean(numbers) ==
    IF Len(numbers) = 0 THEN Frac(0, 1)
    ELSE Frac(SumSeq(numbers), Len(numbers))

\* The square of the mean absolute deviation in place of the variance
calculateStdDevSqMeanDeviation(numbers) ==
    IF Len(numbers) < 2 THEN Frac(0, 1)
    ELSE LET N == Len(numbers)
             S == SumSeq(numbers)
             total == SumSeq([i \in 1..N |-> Abs(N * numbers[i] - S)])
         IN  Frac(total * total, N * N * N * N)

\* The square of calculateStdDev: with N values of sum S, the mean of the
\* squared differences is sum((N*x - S)^2) / N^3.
calculateStdDevSq(numbers) ==
    IF Len(numbers) < 2 THEN Frac(0, 1)
    ELSE LET N == Len(numbers)
             S == SumSeq(numbers)
         IN  Frac(SumSeq([i \in 1..N |-> (N * numbers[i] - S) * (N * numbers[i] - S)]), N * N * N)

\* groupAndSum(items, "category", "amount")
groupAndSum(items) ==
    LET key(item) == IF item.category = "" THEN "Unknown" ELSE item.category
        keys == { key(items[i]) : i \in DOMAIN items }
    IN  [k \in keys |->
            SumSeq([i \in DOMAIN items |->
                      IF key(items[i]) = k THEN Abs(items[i].amount) ELSE 0])]

\* The expansion adding h - 1 and h + 1 without wrapping around midnight
buildHourDistributionNoWrap(txs) ==
    LET hourCounts == [h \in 0..23 |->
                          Cardinality({ i \in DOMAIN txs : IsDated(txs[i]) /\ txs[i].date.hour = h })]
        totalWithHours == SumValues(hourCounts)
        peakHours == { h \in 0..23 : hourCounts[h] * 48 >= totalWithHours }
        expanded == peakHours \cup { h - 1 : h \in peakHours } \cup { h + 1 : h \in peakHours }
    IN  IF totalWithHours = 0 THEN [hourCounts |-> hourCounts, peakHours |-> 0..23]
        ELSE IF Cardinality(peakHours) < 6
             THEN [hourCounts |-> hourCounts, peakHours |-> expanded]
             ELSE [hourCounts |-> hourCounts, peakHours |-> peakHours]

\* Peak hours taken as the hours with at least the average count per hour
buildHourDistributionAboveAverage(txs) ==
    LET hourCounts == [h \in 0..23 |->
                          Cardinality({ i \in DOMAIN txs : IsDated(txs[i]) /\ txs[i].date.hour = h })]
        totalWithHours == SumValues(hourCounts)
        peakHours == { h \in 0..23 : hourCounts[h] * 24 >= totalWithHours }
        expanded == peakHours \cup { (h - 1 + 24) % 24 : h \in peakHours }
                              \cup { (h + 1) % 24 : h \in peakHours }
    IN  IF totalWithHours = 0 THEN [hourCounts |-> hourCounts, peakHours |-> 0..23]
        ELSE IF Cardinality(peakHours) < 6
             THEN [hourCounts |-> hourCounts, peakHours |-> expanded]
             ELSE [hourCounts |-> hourCounts, peakHours |-> peakHours]

\* Peak hours taken as the hours that hold at least half of the transactions
buildHourDistributionMajority(txs) ==
    LET hourCounts == [h \in 0..23 |->
                          Cardinality({ i \in DOMAIN txs : IsDated(txs[i]) /\ txs[i].date.hour = h })]
        totalWithHours == SumValues(hourCounts)
        peakHours == { h \in 0..23 : hourCounts[h] * 2 >= totalWithHours }
        expanded == peakHours \cup { (h - 1 + 24) % 24 : h \in peakHours }
                              \cup { (h + 1) % 24 : h \in peakHours }
    IN  IF totalWithHours = 0 THEN [hourCounts |-> hourCounts, peakHours |-> 0..23]
        ELSE IF Cardinality(peakHours) < 6
             THEN [hourCounts |-> hourCounts, peakHours |-> expanded]
             ELSE [hourCounts |-> hourCounts, peakHours |-> peakHours]

\* hourCounts[h] >= avgPerHour * 0.5 with avgPerHour = totalWithHours / 24
buildHourDistribution(txs) ==
    LET hourCounts == [h \in 0..23 |->
                          Cardinality({ i \in DOMAIN txs : IsDated(txs[i]) /\ txs[i].date.hour = h })]
        totalWithHours == SumValues(hourCounts)
        peakHours == { h \in 0..23 : hourCounts[h] * 48 >= totalWithHours }
        expanded == peakHours \cup { (h - 1 + 24) % 24 : h \in peakHours }
                              \cup { (h + 1) % 24 : h \in peakHours }
    IN  IF totalWithHours = 0 THEN [hourCounts |-> hourCounts, peakHours |-> 0..23]
        ELSE IF Cardinality(peakHours) < 6
             THEN [hourCounts |-> hourCounts, peakHours |-> expanded]
             ELSE [hourCounts |-> hourCounts, peakHours |-> peakHours]

\* The key YYYY-Www of the ISO week of a date, as the number YYYY * 100 + ww
\* (the order of the numbers is the order of the strings); a date carries the
\* ISO week it falls in.
getISOWeekKey(date) == date.weekKey

Max(S) == CHOOSE x \in S : \A y \in S : y <= x

\* The current week taken as the week of the last dated transaction of the list
calculateWeeklyFrequencyLastSeen(txs) ==
    IF Len(txs) = 0 THEN [weeklyAvg |-> Frac(0, 1), currentWeekCount |-> 0]
    ELSE LET dated == { i \in DOMAIN txs : IsDated(txs[i]) }
             weeks == { getISOWeekKey(txs[i].date) : i \in dated }
             weekMap == [w \in weeks |->
                            Cardinality({ i \in dated : getISOWeekKey(txs[i].date) = w })]
         IN  IF weeks = {} THEN [weeklyAvg |-> Frac(0, 1), currentWeekCount |-> 0]
             ELSE [weeklyAvg |-> Frac(SumValues(weekMap), Cardinality(weeks)),
                   currentWeekCount |-> weekMap[getISOWeekKey(txs[Max(dated)].date)]]

calculateWeeklyFrequency(txs) ==
    IF Len(txs) = 0 THEN [weeklyAvg |-> Frac(0, 1), currentWeekCount |-> 0]
    ELSE LET dated == { i \in DOMAIN txs : IsDated(txs[i]) }
             weeks == { getISOWeekKey(txs[i].date) : i \in dated }
             weekMap == [w \in weeks |->
                            Cardinality({ i \in dated : getISOWeekKey(txs[i].date) = w })]
         IN  IF weeks = {} THEN [weeklyAvg |-> Frac(0, 1), currentWeekCount |-> 0]
             ELSE [weeklyAvg |-> Frac(SumValues(weekMap), Cardinality(weeks)),
                   currentWeekCount |-> weekMap[Max(weeks)]]

(***************************************************************************)
(* anomalyService.js: analyzeTransactions, and the risk distribution of    *)
(* uploadController.js                                                     *)
(***************************************************************************)
\* Steps 1 to 6 of analyzeTransactions: the stats object
BatchStatistics(txs) ==
    LET amounts == [i \in DOMAIN txs |-> Abs(txs[i].amount)]
        categoryTotals == groupAndSum(txs)
        avgCategorySpend == Frac(SumValues(categoryTotals), Cardinality(DOMAIN categoryTotals))
        weekly == calculateWeeklyFrequency(txs)
    IN  [mean |-> calculateMean(amounts),
         stdDevSq |-> calculateStdDevSq(amounts),
         peakHours |-> buildHourDistribution(txs).peakHours,
         categoryTotals |-> categoryTotals,
         categoryAvgSpending |-> [c \in DOMAIN categoryTotals |-> avgCategorySpend],
         weeklyAvg |-> weekly.weeklyAvg,
         currentWeekCount |-> weekly.currentWeekCount]

\* A length test that sends a batch of one through the statistics
SingletonBatchNever(txs) == FALSE

\* transactions.length === 1
SingletonBatch(txs) == Len(txs) = 1

\* The distribution counters after one more result, as <<normal, medium, high>>,
\* with the Medium test not chained to the Normal one
TallyNoElse(counts, riskLevel) ==
    LET c1 == IF riskLevel = "Normal" THEN [counts EXCEPT ![1] = @ + 1] ELSE counts
    IN  IF riskLevel = "Medium" THEN [c1 EXCEPT ![2] = @ + 1] ELSE [c1 EXCEPT ![3] = @ + 1]

\* The distribution counters after one more result, as <<normal, medium, high>>
Tally(counts, riskLevel) ==
    IF riskLevel = "Normal" THEN [counts EXCEPT ![1] = @ + 1]
    ELSE IF riskLevel = "Medium" THEN [counts EXCEPT ![2] = @ + 1]
    ELSE [counts EXCEPT ![3] = @ + 1]

\* The copy taking the absolute amount that the scoring uses
WithRiskAbsAmount(tx, anomalyScore, riskLevel) ==
    [tx EXCEPT !.amount = Abs(tx.amount), !.anomalyScore = anomalyScore, !.riskLevel = riskLevel]

\* { ...tx, anomalyScore, riskLevel }
WithRisk(tx, anomalyScore, riskLevel) ==
    [tx EXCEPT !.anomalyScore = anomalyScore, !.riskLevel = riskLevel]

\* riskDistribution[tx.riskLevel] = (riskDistribution[tx.riskLevel] || 0) + 1
RECURSIVE CountLevels(_, _)
CountLevels(dist, txs) ==
    IF txs = <<>> THEN dist
    ELSE LET level == Head(txs).riskLevel
         IN  CountLevels([dist EXCEPT ![level] = @ + 1], Tail(txs))

\* analyzeTransactions as one call: the two early returns, or every
\* transaction scored against the statistics of the batch
analyzeTransactions(txs) ==
    IF Len(txs) = 0 THEN <<>>
    ELSE IF SingletonBatch(txs) THEN [i \in DOMAIN txs |-> WithRisk(txs[i], 0, "Normal")]
    ELSE [i \in DOMAIN txs |->
             WithRisk(txs[i], calculateRisk(txs[i], BatchStatistics(txs)).anomalyScore,
                              calculateRisk(txs[i], BatchStatistics(txs)).riskLevel)]

MaxBatch == 3

BatchAmounts == {1, -10}
BatchHours == {3, 14}
BatchCategories == {"Food", "Rent"}
BatchWeeks == {202401, 202402}

\* Transactions as the normalizer emits them: a valid date, a non-zero amount
\* whose sign agrees with the type, a non-empty category, score 0 and level Normal.
BatchTransactions ==
    { [date |-> [valid |-> TRUE, hour |-> h, weekKey |-> w],
       amount |-> a,
       type |-> IF a < 0 THEN "debit" ELSE "credit",
       category |-> c,
       description |-> "",
       metadata |-> [Category |-> c],
       anomalyScore |-> 0,
       riskLevel |-> "Normal"] :
         h \in BatchHours, w \in BatchWeeks, a \in BatchAmounts, c \in BatchCategories }

Batches == UNION { [1..n -> BatchTransactions] : n \in 0..MaxBatch }

InitBatch ==
    /\ stage = "analyze:call"
    /\ transactions \in Batches
    /\ analyzed = <<>>
    /\ normalCount = 0 /\ mediumCount = 0 /\ highCount = 0
    /\ riskDistribution = Idle
    /\ stats = Idle
    /\ transaction = Idle /\ risk = Idle /\ probe = Idle
    /\ ColumnsIdle
    /\ NormIdle
    /\ UploadIdle

\* analyzeTransactions up to the scoring loop: the two early returns, or the
\* statistics of the batch.
AnalyzeTransactions ==
    /\ stage = "analyze:call"
    /\ IF Len(transactions) = 0
       THEN /\ analyzed' = <<>>
            /\ stage' = "analyze:returned"
            /\ UNCHANGED stats
       ELSE IF SingletonBatch(transactions)
       THEN /\ analyzed' = [i \in DOMAIN transactions |-> WithRisk(transactions[i], 0, "Normal")]
            /\ stage' = "analyze:returned"
            /\ UNCHANGED stats
       ELSE /\ stats' = BatchStatistics(transactions)
            /\ stage' = "analyze:scoring"
            /\ UNCHANGED analyzed
    /\ UNCHANGED <<transactions, normalCount, mediumCount, highCount, riskDistribution, riskVars, columnVars, normVars, uploadVars>>

\* The callback scoring a transaction against the count of its own week
ScoreTransactionOwnWeek ==
    /\ stage = "analyze:scoring"
    /\ LET tx == transactions[Len(analyzed) + 1]
           own == Cardinality({ i \in DOMAIN transactions :
                                  transactions[i].date.weekKey = tx.date.weekKey })
           r == calculateRisk(tx, [stats EXCEPT !.currentWeekCount = own])
           counts == Tally(<<normalCount, mediumCount, highCount>>, r.riskLevel)
       IN  /\ normalCount' = counts[1]
           /\ mediumCount' = counts[2]
           /\ highCount' = counts[3]
           /\ analyzed' = Append(analyzed, WithRisk(tx, r.anomalyScore, r.riskLevel))
    /\ stage' = IF Len(analyzed') = Len(transactions) THEN "analyze:counted" ELSE "analyze:scoring"
    /\ UNCHANGED <<transactions, stats, riskDistribution, riskVars, columnVars, normVars, uploadVars>>

\* One call of the callback of transactions.map; the function returns after
\* the last one.
ScoreTransaction ==
    /\ stage = "analyze:scoring"
    /\ LET tx == transactions[Len(analyzed) + 1]
           r == calculateRisk(tx, stats)
           counts == Tally(<<normalCount, mediumCount, highCount>>, r.riskLevel)
       IN  /\ normalCount' = counts[1]
           /\ mediumCount' = counts[2]
           /\ highCount' = counts[3]
           /\ analyzed' = Append(analyzed, WithRisk(tx, r.anomalyScore, r.riskLevel))
    /\ stage' = IF Len(analyzed') = Len(transactions) THEN "analyze:counted" ELSE "analyze:scoring"
    /\ UNCHANGED <<transactions, stats, riskDistribution, riskVars, columnVars, normVars, uploadVars>>

\* uploadStatement, after insertMany has returned the analysed transactions:
\* the riskDistribution of the response. uploadStatement answers 400 before
\* the analysis when no transaction was normalized.
UploadRiskDistribution ==
    /\ stage \in {"analyze:returned", "analyze:counted"}
    /\ Len(analyzed) > 0
    /\ riskDistribution' = CountLevels([Normal |-> 0, Medium |-> 0, High |-> 0], analyzed)
    /\ stage' = "upload:responded"
    /\ UNCHANGED <<transactions, analyzed, normalCount, mediumCount, highCount, stats, riskVars, columnVars, normVars, uploadVars>>

NextBatch == AnalyzeTransactions \/ ScoreTransaction \/ UploadRiskDistribution

SpecBatch == InitBatch /\ [][NextBatch]_vars

\* C3: the three distribution counts add up to the number of transactions,
\* for the counters of analyzeTransactions (after every scored transaction, and
\* at the end for the whole batch) and for the riskDistribution of the upload.
C3_DistributionSumsToLength ==
    /\ stage \in {"analyze:scoring", "analyze:counted"} =>
          normalCount + mediumCount + highCount = Len(analyzed)
    /\ stage = "analyze:counted" =>
          normalCount + mediumCount + highCount = Len(transactions)
    /\ stage = "upload:responded" =>
          riskDistribution.Normal + riskDistribution.Medium + riskDistribution.High
             = Len(transactions)

\* A batch with a transaction of each level, counted and reported.
C3_Witness ==
    /\ stage = "upload:responded"
    /\ normalCount = 1 /\ mediumCount = 1 /\ highCount = 1
    /\ riskDistribution = [Normal |-> 1, Medium |-> 1, High |-> 1]

\* The fields of a transaction other than anomalyScore and riskLevel
SameButRisk(a, b) ==
    /\ a.date = b.date /\ a.amount = b.amount /\ a.type = b.type
    /\ a.category = b.category /\ a.description = b.description
    /\ a.metadata = b.metadata

\* The call of analyzeTransactions is over
AnalysisOver == stage \in {"analyze:returned", "analyze:counted", "upload:responded"}

\* C11: a batch of one transaction is returned as that transaction with
\* anomalyScore 0 and riskLevel Normal, by the early return, before any
\* statistics are computed and without a scoring call; an empty batch is
\* returned as the empty list.
C11_DegenerateBatches ==
    /\ (stage # "analyze:call" /\ Len(transactions) <= 1) =>
          /\ stage \in {"analyze:returned", "upload:responded"}
          /\ stats = Idle
          /\ normalCount = 0 /\ mediumCount = 0 /\ highCount = 0
    /\ (AnalysisOver /\ Len(transactions) = 0) => analyzed = <<>>
    /\ (AnalysisOver /\ Len(transactions) = 1) =>
          /\ Len(analyzed) = 1
          /\ analyzed[1].anomalyScore = 0
          /\ analyzed[1].riskLevel = "Normal"
          /\ SameButRisk(analyzed[1], transactions[1])

\* A batch of one debit of 10 has been returned
C11_Witness ==
    /\ stage = "analyze:returned"
    /\ Len(transactions) = 1
    /\ transactions[1].amount = -10
    /\ Len(analyzed) = 1

\* The output so far is the input so far, position by position, but for
\* anomalyScore and riskLevel; a finished call has an output for every input
OutputFramesInput ==
    /\ Len(analyzed) <= Len(transactions)
    /\ \A i \in DOMAIN analyzed : SameButRisk(analyzed[i], transactions[i])
    /\ AnalysisOver => Len(analyzed) = Len(transactions)

\* C12: analyzeTransactions changes only anomalyScore and riskLevel: the output
\* has the length and order of the input, every output transaction has the
\* date, amount, type, category, description and metadata of the input
\* transaction at its position, and the input transactions are never written.
C12_OnlyRiskFieldsChange ==
    /\ []OutputFramesInput
    /\ [][transactions' = transactions]_vars

\* A batch of three has been analysed and one of its transactions, a debit,
\* was given a positive score
C12_Witness ==
    /\ stage = "analyze:counted"
    /\ Len(analyzed) = 3
    /\ \E i \in DOMAIN analyzed :
          /\ analyzed[i].anomalyScore > 0
          /\ analyzed[i].amount < 0
          /\ transactions[i].anomalyScore = 0

(***************************************************************************)
(* String functions of JavaScript used by columnMapper.js and              *)
(* normalizer.js.  A string is a TLA+ string; SubSeq(s, i, i) is its i-th  *)
(* character.                                                              *)
(***************************************************************************)
CharAt(s, i) == SubSeq(s, i, i)
Rest(s) == SubSeq(s, 2, Len(s))

LowerOf ==
    [c \in {"A", "B", "C", "D", "E", "F", "G", "H", "I", "J", "K", "L", "M",
            "N", "O", "P", "Q", "R", "S", "T", "U", "V", "W", "X", "Y", "Z"} |->
        CASE c = "A" -> "a" [] c = "B" -> "b" [] c = "C" -> "c" [] c = "D" -> "d"
          [] c = "E" -> "e" [] c = "F" -> "f" [] c = "G" -> "g" [] c = "H" -> "h"
          [] c = "I" -> "i" [] c = "J" -> "j" [] c = "K" -> "k" [] c = "L" -> "l"
          [] c = "M" -> "m" [] c = "N" -> "n" [] c = "O" -> "o" [] c = "P" -> "p"
          [] c = "Q" -> "q" [] c = "R" -> "r" [] c = "S" -> "s" [] c = "T" -> "t"
          [] c = "U" -> "u" [] c = "V" -> "v" [] c = "W" -> "w" [] c = "X" -> "x"
          [] c = "Y" -> "y" [] c = "Z" -> "z"]

\* String.prototype.toLowerCase
RECURSIVE ToLowerCase(_)
ToLowerCase(s) ==
    IF s = "" THEN ""
    ELSE LET c == CharAt(s, 1)
         IN  (IF c \in DOMAIN LowerOf THEN LowerOf[c] ELSE c) \o ToLowerCase(Rest(s))

IsSpace(c) == c \in {" ", "\t"}

\* String.prototype.trim
RECURSIVE Trim(_)
Trim(s) ==
    IF s = "" THEN ""
    ELSE IF IsSpace(CharAt(s, 1)) THEN Trim(Rest(s))
    ELSE IF IsSpace(CharAt(s, Len(s))) THEN Trim(SubSeq(s, 1, Len(s) - 1))
    ELSE s

\* String.prototype.startsWith
StartsWith(s, prefix) ==
    Len(prefix) <= Len(s) /\ SubSeq(s, 1, Len(prefix)) = prefix

\* String.prototype.endsWith
EndsWith(s, suffix) ==
    Len(suffix) <= Len(s) /\ SubSeq(s, Len(s) - Len(suffix) + 1, Len(s)) = suffix

\* String.prototype.includes
Includes(s, part) ==
    \E i \in 1..(Len(s) - Len(part) + 1) : SubSeq(s, i, i + Len(part) - 1) = part

(***************************************************************************)
(* columnMapper.js                                                         *)
(***************************************************************************)
\* Object.entries(FIELD_PATTERNS), in declaration order
FIELD_PATTERNS == <<
    [field |-> "date", keywords |-> <<
        "date", "transaction_date", "txn_date", "trans_date", "trans date",
        "transaction date", "value_date", "value date", "posting_date", "posting date",
        "timestamp", "time", "datetime", "created_at", "created at",
        "txn date" >>],
    [field |-> "amount", keywords |-> <<
        "amount", "transaction_amount", "transaction amount", "txn_amount", "txn amount",
        "value", "total", "sum", "price", "amt" >>],
    [field |-> "debit", keywords |-> <<
        "debit", "debit_amount", "debit amount", "withdrawal", "withdrawal_amount",
        "withdrawal amt", "dr", "money_out", "money out", "spent",
        "expense" >>],
    [field |-> "credit", keywords |-> <<
        "credit", "credit_amount", "credit amount", "deposit", "deposit_amount",
        "deposit amt", "cr", "money_in", "money in", "received",
        "income" >>],
    [field |-> "description", keywords |-> <<
        "description", "narration", "remarks", "details", "transaction_details",
        "transaction details", "particulars", "note", "notes", "memo",
        "payee", "merchant", "merchant_name", "merchant name", "beneficiary",
        "receiver", "sender", "upi_id", "upi id", "to",
        "from" >>],
    [field |-> "category", keywords |-> <<
        "category", "merchant_category", "merchant category", "type", "transaction_type",
        "transaction type", "txn_type", "txn type", "payment_type", "payment type",
        "mode", "channel", "label", "tag" >>],
    [field |-> "transactionId", keywords |-> <<
        "transaction_id", "transaction id", "txn_id", "txn id", "reference",
        "reference_id", "reference id", "ref_no", "ref no", "reference_number",
        "reference number", "utr", "rrn", "order_id", "order id",
        "id" >>]
    >>

\* The score findBestMatch gives to a header for the keyword of index k, with
\* the substring rule applied to keywords of every length
MatchScoreAnyLength(header, keyword, k) ==
    IF header = keyword THEN 1000 - k
    ELSE IF StartsWith(header, keyword \o "_") \/ StartsWith(header, keyword \o " ") THEN 500 - k
    ELSE IF Includes(header, keyword) THEN 200 - k
    ELSE 0

\* The score findBestMatch gives to a header for the keyword of index k (from 0)
MatchScore(header, keyword, k) ==
    IF header = keyword THEN 1000 - k
    ELSE IF StartsWith(header, keyword \o "_") \/ StartsWith(header, keyword \o " ") THEN 500 - k
    ELSE IF Len(keyword) >= 4 /\ Includes(header, keyword) THEN 200 - k
    ELSE 0

\* The inner loop of findBestMatch for one header: the greatest score over the keywords
BestKeywordScore(header, keywords) ==
    Max({0} \cup { MatchScore(header, keywords[k], k - 1) : k \in DOMAIN keywords })

\* h.toLowerCase().trim()
NormalizeHeader(h) == Trim(ToLowerCase(h))

MaxHeaders == 3
MaxCalls == 2

HeaderPool ==
    {"Date", "DATE ", "Value Date", "Credit Date", "Amount", "Debit", "Dr",
     "Drawer", "Description", "Transaction Type", "Txn ID", ""}

\* The headers of the files whose rows are normalized
RowHeaders == {"Date", "Amount", "Debit", "Credit", "Category"}

HeaderLists == UNION { [1..n -> HeaderPool] : n \in 0..MaxHeaders }

\* BestKeywordScore for every normalized header of the pool and every field,
\* computed once
ScoreTable ==
    [h \in { NormalizeHeader(x) : x \in HeaderPool \cup RowHeaders } |->
        [f \in DOMAIN FIELD_PATTERNS |-> BestKeywordScore(h, FIELD_PATTERNS[f].keywords)]]

NoMatch == [found |-> FALSE, index |-> 0, score |-> 0]

\* The outer loop of findBestMatch from header i on: a header replaces the
\* best match only with a strictly greater score.
RECURSIVE ScanHeaders(_, _, _, _, _)
ScanHeaders(i, normalizedHeaders, f, used, best) ==
    IF i > Len(normalizedHeaders) THEN best
    ELSE IF i \in used THEN ScanHeaders(i + 1, normalizedHeaders, f, used, best)
    ELSE LET score == ScoreTable[normalizedHeaders[i]][f]
         IN  ScanHeaders(i + 1, normalizedHeaders, f, used,
                         IF score > best.score
                         THEN [found |-> TRUE, index |-> i, score |-> score]
                         ELSE best)

\* findBestMatch looking at every header, used or not
findBestMatchAnyHeader(normalizedHeaders, f, used) ==
    ScanHeaders(1, normalizedHeaders, f, {}, NoMatch)

\* findBestMatch(headers, keywords, usedHeaders), keywords being those of field f
findBestMatch(normalizedHeaders, f, used) ==
    ScanHeaders(1, normalizedHeaders, f, used, NoMatch)

\* The loop of detectColumns over Object.entries(FIELD_PATTERNS) from field f on
RECURSIVE AssignFields(_, _, _, _, _)
AssignFields(f, hs, normalizedHeaders, map, used) ==
    IF f > Len(FIELD_PATTERNS) THEN [mapping |-> map, usedHeaders |-> used]
    ELSE LET match == findBestMatch(normalizedHeaders, f, used)
             field == FIELD_PATTERNS[f].field
         IN  IF match.found
             THEN AssignFields(f + 1, hs, normalizedHeaders,
                               [x \in DOMAIN map \cup {field} |->
                                   IF x = field THEN hs[match.index] ELSE map[x]],
                               used \cup {match.index})
             ELSE AssignFields(f + 1, hs, normalizedHeaders, map, used)

\* const mapping = {}
NewMapping == <<>>

\* A usedHeaders set that outlives the call
KeptUsedHeaders == usedHeaders

\* const usedHeaders = new Set()
NewUsedHeaders == {}

\* !!mapping[field]
IsMapped(map, field) == field \in DOMAIN map /\ map[field] # ""

\* hasDebitCredit requiring both columns
HasDebitCreditBoth(map) == IsMapped(map, "debit") /\ IsMapped(map, "credit")

\* const hasDebitCredit = hasDebit || hasCredit
HasDebitCredit(map) == IsMapped(map, "debit") \/ IsMapped(map, "credit")

\* The validation of detectColumns: the missing list
Missing(map) ==
    (IF ~IsMapped(map, "date") THEN <<"date">> ELSE <<>>)
    \o (IF ~IsMapped(map, "amount") /\ ~HasDebitCredit(map)
        THEN <<"amount (or debit/credit)">> ELSE <<>>)

\* headers.filter((_, i) => !usedHeaders.has(i)), from header i on
RECURSIVE Unmapped(_, _, _)
Unmapped(i, hs, used) ==
    IF i > Len(hs) THEN <<>>
    ELSE (IF i \in used THEN <<>> ELSE <<hs[i]>>) \o Unmapped(i + 1, hs, used)

\* What detectColumns throws or returns, once its loop has filled mapping and usedHeaders
DetectionOutcome(hs, map, used) ==
    IF Len(Missing(map)) > 0
    THEN [thrown |-> TRUE,
          success |-> FALSE,
          error |-> "Required columns not found",
          missing |-> Missing(map),
          detectedHeaders |-> hs,
          suggestion |-> "Ensure your CSV contains columns for: date and amount (or debit/credit). Column names are matched using keyword detection.",
          mapping |-> <<>>, hasDebitCredit |-> FALSE, unmapped |-> <<>>]
    ELSE [thrown |-> FALSE,
          success |-> TRUE,
          error |-> "",
          missing |-> <<>>,
          detectedHeaders |-> <<>>,
          suggestion |-> "",
          mapping |-> map,
          hasDebitCredit |-> HasDebitCredit(map),
          unmapped |-> Unmapped(1, hs, used)]

InitColumns ==
    /\ stage = "detect"
    /\ headers \in HeaderLists
    /\ mapping = <<>> /\ usedHeaders = {}
    /\ detection = Idle /\ previous = Idle
    /\ calls = 0
    /\ stats = Idle
    /\ transaction = Idle /\ risk = Idle /\ probe = Idle
    /\ BatchIdle
    /\ NormIdle
    /\ UploadIdle

\* One call detectColumns(headers)
DetectColumns ==
    /\ stage = "detect"
    /\ calls < MaxCalls
    /\ LET assigned == AssignFields(1, headers, [i \in DOMAIN headers |-> NormalizeHeader(headers[i])],
                                    NewMapping, NewUsedHeaders)
       IN  /\ mapping' = assigned.mapping
           /\ usedHeaders' = assigned.usedHeaders
           /\ detection' = DetectionOutcome(headers, assigned.mapping, assigned.usedHeaders)
    /\ previous' = detection
    /\ calls' = calls + 1
    /\ UNCHANGED <<stage, headers, stats, riskVars, batchVars, normVars, uploadVars>>

NextColumns == DetectColumns

SpecColumns == InitColumns /\ [][NextColumns]_vars

AmountGroup == {"amount", "debit", "credit"}

\* C6: detectColumns returns a mapping exactly when date is mapped and one of
\* amount, debit, credit is; otherwise it throws the structured error whose
\* missing list names exactly the absent requirements; on success
\* hasDebitCredit is true exactly when debit or credit is mapped.
C6_DetectionValidation ==
    calls > 0 =>
        LET hasDate == "date" \in DOMAIN mapping
            hasGroup == AmountGroup \cap DOMAIN mapping # {}
        IN  /\ ~detection.thrown <=> (hasDate /\ hasGroup)
            /\ detection.thrown =>
                  /\ detection.success = FALSE
                  /\ detection.error = "Required columns not found"
                  /\ detection.detectedHeaders = headers
                  /\ detection.missing =
                        (IF hasDate THEN <<>> ELSE <<"date">>)
                        \o (IF hasGroup THEN <<>> ELSE <<"amount (or debit/credit)">>)
            /\ ~detection.thrown =>
                  /\ detection.mapping = mapping
                  /\ detection.hasDebitCredit <=> ({"debit", "credit"} \cap DOMAIN mapping # {})

\* A successful detection in which only one of debit and credit is mapped.
C6_Witness ==
    /\ calls > 0
    /\ ~detection.thrown
    /\ detection.hasDebitCredit
    /\ "debit" \in DOMAIN mapping /\ "credit" \notin DOMAIN mapping /\ "amount" \notin DOMAIN mapping

\* C7: no header string is the target of two semantic fields of the mapping
\* returned by detectColumns.
C7_MappingInjective ==
    (calls > 0 /\ ~detection.thrown) =>
        \A f, g \in DOMAIN detection.mapping :
            f # g => detection.mapping[f] # detection.mapping[g]

\* C8: a second call of detectColumns on the same header list returns (or
\* throws) the same as the first.
C8_DetectionRepeatable ==
    calls >= 2 => detection = previous

\* A second call on a list for which several fields are mapped.
C8_Witness ==
    /\ calls >= 2
    /\ ~detection.thrown
    /\ Cardinality(DOMAIN detection.mapping) >= 3

(***************************************************************************)
(* normalizer.js: dates.  A Date is modelled by the fields its local       *)
(* getters return, [valid, year, month, day, hour], for an environment     *)
(* whose local time is UTC plus a whole number tz of hours (no daylight    *)
(* saving).  valid is FALSE for an Invalid Date.                           *)
(***************************************************************************)
Digits == {"0", "1", "2", "3", "4", "5", "6", "7", "8", "9"}

DigitValue(c) ==
    CASE c = "0" -> 0 [] c = "1" -> 1 [] c = "2" -> 2 [] c = "3" -> 3 [] c = "4" -> 4
      [] c = "5" -> 5 [] c = "6" -> 6 [] c = "7" -> 7 [] c = "8" -> 8 [] c = "9" -> 9

\* /^\d+$/
IsDigits(s) == s # "" /\ \A i \in 1..Len(s) : CharAt(s, i) \in Digits

\* parseInt of a string of digits
RECURSIVE ParseDigits(_, _)
ParseDigits(s, acc) ==
    IF s = "" THEN acc ELSE ParseDigits(Rest(s), acc * 10 + DigitValue(CharAt(s, 1)))

ParseInt(s) == ParseDigits(s, 0)

\* Quotient and remainder of the number written by a string of digits, by
\* long division (the number itself may exceed the integers of the checker)
RECURSIVE DivModDigits(_, _, _, _)
DivModDigits(s, d, q, r) ==
    IF s = "" THEN [q |-> q, r |-> r]
    ELSE LET x == r * 10 + DigitValue(CharAt(s, 1))
         IN  DivModDigits(Rest(s), d, q * 10 + (x \div d), x % d)

\* Days from 1970-01-01 to the day d of month m of year y of the proleptic
\* Gregorian calendar; d may exceed the length of the month.
DaysFromCivil(y, m, d) ==
    LET yy == IF m <= 2 THEN y - 1 ELSE y
        era == yy \div 400
        yoe == yy - era * 400
        mp == IF m > 2 THEN m - 3 ELSE m + 9
        doy == (153 * mp + 2) \div 5 + d - 1
        doe == yoe * 365 + (yoe \div 4) - (yoe \div 100) + doy
    IN  era * 146097 + doe - 719468

\* The calendar date of a number of days from 1970-01-01
CivilFromDays(days) ==
    LET z == days + 719468
        era == z \div 146097
        doe == z - era * 146097
        yoe == (doe - (doe \div 1460) + (doe \div 36524) - (doe \div 146096)) \div 365
        doy == doe - (365 * yoe + (yoe \div 4) - (yoe \div 100))
        mp == (5 * doy + 2) \div 153
        m == IF mp < 10 THEN mp + 3 ELSE mp - 9
    IN  [year |-> yoe + era * 400 + (IF m <= 2 THEN 1 ELSE 0),
         month |-> m,
         day |-> doy - ((153 * mp + 2) \div 5) + 1]

\* getISOWeekKey for a local day, numbered from 1970-01-01 (a Thursday): the
\* day is moved to the Thursday of its week, week1 is the 4th of January of
\* that Thursday's year, and Math.round(x / 7) is the floor of (2x + 7) / 14.
\* The key YYYY-Www is kept as the number YYYY * 100 + ww.
ISOWeekKey(dayNumber) ==
    LET getDay(n) == (n + 4) % 7
        thursday == dayNumber + 3 - ((getDay(dayNumber) + 6) % 7)
        year == CivilFromDays(thursday).year
        week1 == DaysFromCivil(year, 1, 4)
        x == thursday - week1 - 3 + ((getDay(week1) + 6) % 7)
        weekNum == 1 + ((2 * x + 7) \div 14)
    IN  year * 100 + weekNum

InvalidDate == [valid |-> FALSE, year |-> 0, month |-> 0, day |-> 0, hour |-> 0, weekKey |-> 0]

\* The Date of a UTC instant (days from the epoch, second of the day), read in local time
DateOfInstant(days, secs, tz) ==
    LET total == secs + tz * 3600
        c == CivilFromDays(days + (total \div 86400))
    IN  [valid |-> TRUE, year |-> c.year, month |-> c.month, day |-> c.day,
         hour |-> (total % 86400) \div 3600,
         weekKey |-> ISOWeekKey(days + (total \div 86400))]

\* The Date of a local calendar date and hour
DateOfLocal(y, m, d, hour) ==
    LET c == CivilFromDays(DaysFromCivil(y, m, d))
    IN  [valid |-> TRUE, year |-> c.year, month |-> c.month, day |-> c.day, hour |-> hour,
         weekKey |-> ISOWeekKey(DaysFromCivil(y, m, d))]

\* new Date(ts) for the timestamp written by the digits of cleaned, taken as
\* seconds when asSeconds and as milliseconds otherwise
NewDateOfTimestamp(cleaned, asSeconds, tz) ==
    LET seconds == IF asSeconds THEN cleaned ELSE SubSeq(cleaned, 1, Len(cleaned) - 3)
        dm == DivModDigits(seconds, 86400, 0, 0)
    IN  DateOfInstant(dm.q, dm.r, tz)

\* The positions of the characters of s that are in seps
SeparatorPositions(s, seps) == { i \in 1..Len(s) : CharAt(s, i) \in seps }

\* The three runs of digits of a string of the shape digits sep digits sep
\* digits, or <<>> for a string of another shape
ThreeNumbers(s, seps) ==
    LET ps == SeparatorPositions(s, seps)
    IN  IF Cardinality(ps) # 2 THEN <<>>
        ELSE LET p1 == CHOOSE i \in ps : \A j \in ps : i <= j
                 p2 == CHOOSE i \in ps : \A j \in ps : j <= i
                 a == SubSeq(s, 1, p1 - 1)
                 b == SubSeq(s, p1 + 1, p2 - 1)
                 c == SubSeq(s, p2 + 1, Len(s))
             IN  IF IsDigits(a) /\ IsDigits(b) /\ IsDigits(c) THEN <<a, b, c>> ELSE <<>>

MonthNames ==
    <<"jan", "feb", "mar", "apr", "may", "jun", "jul", "aug", "sep", "oct", "nov", "dec">>

\* new Date("YYYY-MM-DD") of a date-only ISO string: UTC midnight; the engine
\* of Node.js accepts a month 1..12 and a day 1..31, a day beyond the end of
\* the month running into the next month.
NewDateOfIsoDate(year, month, day, tz) ==
    IF Len(year) = 4 /\ Len(month) = 2 /\ Len(day) = 2
       /\ ParseInt(month) \in 1..12 /\ ParseInt(day) \in 1..31
    THEN DateOfInstant(DaysFromCivil(ParseInt(year), ParseInt(month), ParseInt(day)), 0, tz)
    ELSE InvalidDate

\* new Date(string) of Node.js for the strings of these shapes, and Invalid
\* Date for the others (the rows of the model hold no other string that the
\* engine would parse):
\*   YYYY-MM-DD          ISO date, UTC midnight
\*   YYYY-MM-DDTHH:MM    ISO date and time, local time
\*   YYYY/M/D, YYYY-M-D  local midnight
\*   M/D/YYYY            local midnight, month first
\*   D Mon YYYY          local midnight
NewDate(s, tz) ==
    LET ymd == ThreeNumbers(s, {"/", "-"})
        iso == ThreeNumbers(s, {"-"})
        mdy == ThreeNumbers(s, {"/"})
        txt == SeparatorPositions(s, {" "})
    IN  IF iso # <<>> /\ Len(s) = 10 /\ Len(iso[1]) = 4 /\ Len(iso[2]) = 2 /\ Len(iso[3]) = 2
        THEN NewDateOfIsoDate(iso[1], iso[2], iso[3], tz)
        ELSE IF Len(s) = 16 /\ CharAt(s, 11) = "T" /\ CharAt(s, 14) = ":"
                /\ ThreeNumbers(SubSeq(s, 1, 10), {"-"}) # <<>>
                /\ IsDigits(SubSeq(s, 12, 13)) /\ IsDigits(SubSeq(s, 15, 16))
        THEN LET d == ThreeNumbers(SubSeq(s, 1, 10), {"-"})
             IN  IF Len(d[1]) = 4 /\ Len(d[2]) = 2 /\ Len(d[3]) = 2
                    /\ ParseInt(d[2]) \in 1..12 /\ ParseInt(d[3]) \in 1..31
                    /\ ParseInt(SubSeq(s, 12, 13)) \in 0..23 /\ ParseInt(SubSeq(s, 15, 16)) \in 0..59
                 THEN DateOfLocal(ParseInt(d[1]), ParseInt(d[2]), ParseInt(d[3]), ParseInt(SubSeq(s, 12, 13)))
                 ELSE InvalidDate
        ELSE IF ymd # <<>> /\ Len(ymd[1]) = 4 /\ Len(ymd[2]) <= 2 /\ Len(ymd[3]) <= 2
        THEN IF ParseInt(ymd[2]) \in 1..12 /\ ParseInt(ymd[3]) \in 1..31
             THEN DateOfLocal(ParseInt(ymd[1]), ParseInt(ymd[2]), ParseInt(ymd[3]), 0)
             ELSE InvalidDate
        ELSE IF mdy # <<>> /\ Len(mdy[1]) <= 2 /\ Len(mdy[2]) <= 2 /\ Len(mdy[3]) = 4
        THEN IF ParseInt(mdy[1]) \in 1..12 /\ ParseInt(mdy[2]) \in 1..31
             THEN DateOfLocal(ParseInt(mdy[3]), ParseInt(mdy[1]), ParseInt(mdy[2]), 0)
             ELSE InvalidDate
        ELSE IF Cardinality(txt) = 2
        THEN LET p1 == CHOOSE i \in txt : \A j \in txt : i <= j
                 p2 == CHOOSE i \in txt : \A j \in txt : j <= i
                 d == SubSeq(s, 1, p1 - 1)
                 mon == ToLowerCase(SubSeq(s, p1 + 1, p2 - 1))
                 y == SubSeq(s, p2 + 1, Len(s))
             IN  IF IsDigits(d) /\ Len(d) <= 2 /\ IsDigits(y) /\ Len(y) = 4
                    /\ mon \in Range(MonthNames) /\ ParseInt(d) \in 1..31
                 THEN DateOfLocal(ParseInt(y), CHOOSE m \in 1..12 : MonthNames[m] = mon, ParseInt(d), 0)
                 ELSE InvalidDate
        ELSE InvalidDate

\* isValidDate accepting every valid Date
isValidDateAnyYear(d) == d.valid

\* isValidDate
isValidDate(d) ==
    IF ~d.valid THEN FALSE
    ELSE d.year >= 1990 /\ d.year <= 2100

\* /^\d{10,13}$/.test(cleaned)
IsTimestamp(cleaned) == IsDigits(cleaned) /\ Len(cleaned) >= 10 /\ Len(cleaned) <= 13

\* /^\d{4}[\/\-]\d{1,2}[\/\-]\d{1,2}/.test(cleaned)
IsYearFirst(cleaned) ==
    /\ Len(cleaned) >= 8
    /\ IsDigits(SubSeq(cleaned, 1, 4))
    /\ CharAt(cleaned, 5) \in {"/", "-"}
    /\ CharAt(cleaned, 6) \in Digits
    /\ \/ CharAt(cleaned, 7) \in {"/", "-"} /\ CharAt(cleaned, 8) \in Digits
       \/ /\ Len(cleaned) >= 9
          /\ CharAt(cleaned, 7) \in Digits
          /\ CharAt(cleaned, 8) \in {"/", "-"}
          /\ CharAt(cleaned, 9) \in Digits

\* cleaned.match(/^(\d{1,2})[\/\-\.](\d{1,2})[\/\-\.](\d{2,4})$/): <<day, month, year>> or <<>>
DmyMatch(cleaned) ==
    LET m == ThreeNumbers(cleaned, {"/", "-", "."})
    IN  IF m # <<>> /\ Len(m[1]) <= 2 /\ Len(m[2]) <= 2 /\ Len(m[3]) >= 2 /\ Len(m[3]) <= 4
        THEN m ELSE <<>>

\* String.prototype.padStart(2, "0")
PadStart2(s) == IF Len(s) < 2 THEN "0" \o s ELSE s

\* The Date built in the day-first branch of parseDate
DateOfDmy(m, tz) ==
    LET year == IF Len(m[3]) = 2
                THEN (IF ParseInt(m[3]) > 50 THEN "19" \o m[3] ELSE "20" \o m[3])
                ELSE m[3]
    IN  NewDateOfIsoDate(year, PadStart2(m[2]), PadStart2(m[1]), tz)

\* The value parseDate returns for no date
NoDate == InvalidDate

\* parseDate: the Date returned, or NoDate for null
parseDate(str, tz) ==
    IF str = "" THEN NoDate
    ELSE LET cleaned == Trim(str)
             d1 == NewDateOfTimestamp(cleaned, Len(cleaned) = 10, tz)
             d2 == NewDate(cleaned, tz)
             d3 == DateOfDmy(DmyMatch(cleaned), tz)
             d4 == NewDate(cleaned, tz)
         IN  IF IsTimestamp(cleaned) /\ isValidDate(d1) THEN d1
             ELSE IF IsYearFirst(cleaned) /\ isValidDate(d2) THEN d2
             ELSE IF DmyMatch(cleaned) # <<>> /\ isValidDate(d3) THEN d3
             ELSE IF isValidDate(d4) THEN d4
             ELSE NoDate

(***************************************************************************)
(* normalizer.js: amounts.  A number is an integer count of thousandths;   *)
(* digits after the third decimal of an input are dropped, and the inputs  *)
(* of the model have none.                                                 *)
(***************************************************************************)
AmountScale == 1000

\* str.replace(/[...]/g, "") for a set of characters
RECURSIVE RemoveChars(_, _)
RemoveChars(s, chars) ==
    IF s = "" THEN ""
    ELSE (IF CharAt(s, 1) \in chars THEN "" ELSE CharAt(s, 1)) \o RemoveChars(Rest(s), chars)

\* .replace(/^(Rs\.?|INR|USD|EUR|GBP)/i, "")
StripCurrencyCode(s) ==
    LET low == ToLowerCase(s)
    IN  IF StartsWith(low, "rs.") THEN SubSeq(s, 4, Len(s))
        ELSE IF StartsWith(low, "rs") THEN SubSeq(s, 3, Len(s))
        ELSE IF \E code \in {"inr", "usd", "eur", "gbp"} : StartsWith(low, code)
             THEN SubSeq(s, 4, Len(s))
        ELSE s

\* /^\([\d,.]+\)$/.test(cleaned)
IsParenNegative(s) ==
    /\ Len(s) >= 3
    /\ CharAt(s, 1) = "(" /\ CharAt(s, Len(s)) = ")"
    /\ \A i \in 2..(Len(s) - 1) : CharAt(s, i) \in Digits \cup {",", "."}

\* The suffix matched by /\s*(Dr|DR)\.?$/i (tag "dr") or /\s*(Cr|CR)\.?$/i
\* (tag "cr"): its length, or 0 for no match. The string holds no whitespace.
SuffixLength(s, tag) ==
    LET low == ToLowerCase(s)
    IN  IF EndsWith(low, tag \o ".") THEN 3
        ELSE IF EndsWith(low, tag) THEN 2
        ELSE 0

\* The digits at the start of a string
RECURSIVE LeadingDigits(_)
LeadingDigits(s) ==
    IF s = "" \/ CharAt(s, 1) \notin Digits THEN ""
    ELSE CharAt(s, 1) \o LeadingDigits(Rest(s))

\* parseFloat of a string without leading whitespace and without exponent:
\* [nan, value], the value in thousandths
ParseFloat(s) ==
    LET signed == s # "" /\ CharAt(s, 1) \in {"-", "+"}
        negative == s # "" /\ CharAt(s, 1) = "-"
        body == IF signed THEN Rest(s) ELSE s
        int == LeadingDigits(body)
        afterInt == SubSeq(body, Len(int) + 1, Len(body))
        frac == IF afterInt # "" /\ CharAt(afterInt, 1) = "." THEN LeadingDigits(Rest(afterInt)) ELSE ""
        frac3 == SubSeq(frac \o "000", 1, 3)
        magnitude == ParseInt(int) * AmountScale + ParseInt(frac3)
    IN  IF int = "" /\ frac = "" THEN [nan |-> TRUE, value |-> 0]
        ELSE [nan |-> FALSE, value |-> IF negative THEN -magnitude ELSE magnitude]

\* parseAmount
parseAmount(str) ==
    IF str = "" THEN 0
    ELSE LET c1 == Trim(StripCurrencyCode(RemoveChars(RemoveChars(Trim(str), {"₹", "$", "€", "£", "¥"}),
                                                      {" ", "\t"})))
             isParenNegative == IsParenNegative(c1)
             c2 == IF isParenNegative THEN RemoveChars(c1, {"(", ")"}) ELSE c1
             c3 == RemoveChars(c2, {","})
             isDebit == SuffixLength(c3, "dr") > 0
             c4 == IF isDebit THEN SubSeq(c3, 1, Len(c3) - SuffixLength(c3, "dr"))
                   ELSE SubSeq(c3, 1, Len(c3) - SuffixLength(c3, "cr"))
             num == ParseFloat(c4)
             result == IF isParenNegative THEN -Abs(num.value) ELSE num.value
         IN  IF num.nan THEN 0
             ELSE IF isDebit THEN -Abs(result) ELSE result

\* roundAmount: Math.round(amount * 100) / 100; Math.round takes the floor of
\* its argument plus one half.
roundAmount(amount) == ((amount + 5) \div 10) * 10

\* cleanString: trim, then every run of whitespace replaced by one space
RECURSIVE CollapseSpaces(_)
CollapseSpaces(s) ==
    IF s = "" THEN ""
    ELSE IF IsSpace(CharAt(s, 1))
         THEN IF Len(s) >= 2 /\ IsSpace(CharAt(s, 2)) THEN CollapseSpaces(Rest(s))
              ELSE " " \o CollapseSpaces(Rest(s))
         ELSE CharAt(s, 1) \o CollapseSpaces(Rest(s))

cleanString(str) == IF str = "" THEN "" ELSE CollapseSpaces(Trim(str))

\* getField(row, mapping[field])
getField(row, map, field) ==
    IF ~IsMapped(map, field) THEN ""
    ELSE IF map[field] \in DOMAIN row THEN Trim(row[map[field]])
    ELSE ""

(***************************************************************************)
(* The cells of the files that are normalized, and the values of parseDate *)
(* and parseAmount on them, computed once.                                 *)
(***************************************************************************)
\* Offsets of local time from UTC, in hours
TimeZones == {-5, 0, 5}

DatePool ==
    { "2024-01-15", " 2024/1/5 ", "15/01/2024", "01/15/2024", "15-01-24",
      "31.12.89", "1705276800", "9999999999", "1989-12-31", "2101-01-01",
      "1990-01-01", "" }

AmountPool ==
    { "1,234.50", "(500)", "₹750 Dr", "Rs. 1,23,456.78", "-5 Cr", "0.004",
      "-0.004", "", "abc" }

\* Rows over all the columns: each date with one amount, each amount with one
\* date, and the combinations of the debit, credit and amount cells
FullRows ==
    { [Date |-> d, Amount |-> "1,234.50", Debit |-> "", Credit |-> "250", Category |-> "Food"] :
        d \in DatePool }
    \cup { [Date |-> "2024-01-15", Amount |-> a, Debit |-> "", Credit |-> "", Category |-> " Dining   Out "] :
        a \in AmountPool }
    \cup { [Date |-> "15/01/2024", Amount |-> c[1], Debit |-> c[2], Credit |-> c[3], Category |-> ""] :
        c \in {"", "-75"} \X {"", "500", "0.004", "-20"} \X {""} }
    \cup { [Date |-> "15/01/2024", Amount |-> "-75", Debit |-> "500", Credit |-> "250", Category |-> ""] }

\* The rows of the files that are carried through the whole upload
UploadRows ==
    { [Date |-> "2024-01-15", Amount |-> "0.05", Debit |-> "", Credit |-> "0.05", Category |-> "Food"],
      [Date |-> "2024-01-22T03:30", Amount |-> "-0.10", Debit |-> "0.10", Credit |-> "", Category |-> "Rent"],
      [Date |-> "15/01/2024", Amount |-> "0.01", Debit |-> "", Credit |-> "0.01", Category |-> "Food"],
      [Date |-> "2024/2/5", Amount |-> "0.10", Debit |-> "", Credit |-> "0.10", Category |-> ""],
      [Date |-> "2024-01-15", Amount |-> "0.004", Debit |-> "0.004", Credit |-> "", Category |-> "Food"],
      [Date |-> "", Amount |-> "0.05", Debit |-> "0.05", Credit |-> "", Category |-> "Food"],
      [Date |-> "1989-12-31", Amount |-> "0.05", Debit |-> "", Credit |-> "0.05", Category |-> "Rent"],
      [Date |-> "2024-01-15", Amount |-> "abc", Debit |-> "", Credit |-> "", Category |-> "Food"] }

\* The strings getField returns for the cells of the rows
DateCells == {""} \cup { Trim(r.Date) : r \in FullRows \cup UploadRows }

AmountCells ==
    {""} \cup UNION { { Trim(r.Amount), Trim(r.Debit), Trim(r.Credit) } : r \in FullRows \cup UploadRows }

ParseDateTable == [tz \in TimeZones |-> [str \in DateCells |-> parseDate(str, tz)]]

ParseAmountTable == [str \in AmountCells |-> parseAmount(str)]

\* parseDate(rawDate) where local time is UTC + tz
ParsedDate(str, tz) == ParseDateTable[tz][str]

\* parseAmount(raw)
ParsedAmount(str) == ParseAmountTable[str]

\* The credit column looked at before the debit column
AmountOfColumnsCreditFirst(debitVal, creditVal, amountMapped, amtVal) ==
    IF creditVal > 0 THEN [amount |-> Abs(creditVal), type |-> "credit"]
    ELSE IF debitVal > 0 THEN [amount |-> -Abs(debitVal), type |-> "debit"]
    ELSE IF amountMapped
         THEN [amount |-> amtVal, type |-> IF amtVal < 0 THEN "debit" ELSE "credit"]
    ELSE [amount |-> 0, type |-> "unknown"]

\* normalizeRow, separate debit and credit columns: amount and type from the
\* parsed debit, credit and amount cells
AmountOfColumns(debitVal, creditVal, amountMapped, amtVal) ==
    IF debitVal > 0 THEN [amount |-> -Abs(debitVal), type |-> "debit"]
    ELSE IF creditVal > 0 THEN [amount |-> Abs(creditVal), type |-> "credit"]
    ELSE IF amountMapped
         THEN [amount |-> amtVal, type |-> IF amtVal < 0 THEN "debit" ELSE "credit"]
    ELSE [amount |-> 0, type |-> "unknown"]

\* normalizeRow, single amount column
AmountOfSingle(amount) ==
    [amount |-> amount, type |-> IF amount < 0 THEN "debit" ELSE "credit"]

\* The amount and type that normalizeRow derives from a row
AmountAndType(row, map, hasDebitCredit) ==
    IF hasDebitCredit
    THEN AmountOfColumns(ParsedAmount(getField(row, map, "debit")),
                         ParsedAmount(getField(row, map, "credit")),
                         IsMapped(map, "amount"),
                         ParsedAmount(getField(row, map, "amount")))
    ELSE AmountOfSingle(ParsedAmount(getField(row, map, "amount")))

\* normalizeRow from the parsed date on: <<>> for null, or the one transaction
BuildTransaction(row, date, at, description, category) ==
    IF ~date.valid THEN <<>>
    ELSE IF at.amount = 0 THEN <<>>
    ELSE << [date |-> date,
             amount |-> roundAmount(at.amount),
             type |-> at.type,
             category |-> IF category = "" THEN "Uncategorized" ELSE category,
             description |-> description,
             metadata |-> row,
             anomalyScore |-> 0,
             riskLevel |-> "Normal"] >>

\* normalizeRow
normalizeRow(row, map, hasDebitCredit, tz) ==
    BuildTransaction(row,
                     ParsedDate(getField(row, map, "date"), tz),
                     AmountAndType(row, map, hasDebitCredit),
                     cleanString(getField(row, map, "description")),
                     cleanString(getField(row, map, "category")))

(***************************************************************************)
(* Normalizing the rows of an uploaded file: uploadStatement calls         *)
(* detectColumns on the file's headers, then normalizeRows on its rows.    *)
(***************************************************************************)
MaxRows == 2

\* The header lines of the uploaded files
NormHeaderLists ==
    { <<"Date", "Amount", "Category">>,
      <<"Date", "Debit", "Credit">>,
      <<"Date", "Amount", "Debit", "Credit">>,
      <<"Amount", "Category">> }

\* The rows parseCSV yields for a file with the header line hs
RowsFor(hs) == { [h \in Range(hs) |-> r[h]] : r \in FullRows }

\* The longest file carried through the whole upload
MaxUploadRows == 3

\* No response has been sent
NoResponse == [status |-> 0]

\* The body of the catch block's response (its message field is the message
\* of the error caught)
ErrorResponse ==
    [status |-> 500,
     body |-> [success |-> FALSE, error |-> "An error occurred while processing the file."]]

\* path.extname of a file name without directories: the part from the last
\* dot on, empty when there is no dot or the only dot is the first character
RECURSIVE LastDot(_)
LastDot(name) ==
    IF name = "" THEN 0
    ELSE IF CharAt(name, Len(name)) = "." THEN Len(name)
    ELSE LastDot(SubSeq(name, 1, Len(name) - 1))

ExtName(name) ==
    IF LastDot(name) <= 1 THEN "" ELSE SubSeq(name, LastDot(name), Len(name))

\* req.file as multer's disk storage fills it in: the stored file is named by
\* the clock, a random number and the extension of the original name
RequestFile(name) ==
    [present |-> TRUE, originalname |-> name, path |-> "uploads/1-2" \o ExtName(name)]

\* req.file of a request without a file (undefined)
NoFile == [present |-> FALSE, originalname |-> "", path |-> ""]

CsvFile == RequestFile("statement.csv")

\* cleanupFile(filePath): the file is unlinked if it exists and every error is
\* swallowed; the paths it was called with are recorded
cleanupFile(called, filePath) == Append(called, filePath)

\* The header lines and rows of the files carried through the whole upload
UploadHeaderLists ==
    { <<"Date", "Amount", "Category">>,
      <<"Date", "Debit", "Credit">>,
      <<"Amount", "Category">> }

UploadRowsFor(hs) == { [h \in Range(hs) |-> r[h]] : r \in UploadRows }

\* uploadStatement answers 400 for a file without rows before it detects columns
InitNorm ==
    /\ stage = "upload:parsed"
    /\ headers \in NormHeaderLists
    /\ rows \in UNION { [1..n -> RowsFor(headers)] : n \in 1..MaxRows }
    /\ tzHours \in TimeZones
    /\ position = 0
    /\ normalized = <<>>
    /\ mapping = <<>> /\ usedHeaders = {}
    /\ detection = Idle /\ previous = Idle /\ calls = Idle
    /\ stats = Idle
    /\ transaction = Idle /\ risk = Idle /\ probe = Idle
    /\ BatchIdle
    /\ stored = Idle /\ response = Idle
    /\ file = CsvFile /\ cleanups = <<>> /\ sent = 0

\* res.status(400).json(detectionError)
DetectionErrorResponse(error) ==
    [status |-> 400,
     body |-> [success |-> error.success, error |-> error.error, missing |-> error.missing,
               detectedHeaders |-> error.detectedHeaders, suggestion |-> error.suggestion]]

\* The request going on to normalizeRows whatever detectColumns did
StageAfterDetectionAlways(outcome) == "normalize:loop"

\* try { columnResult = detectColumns(headers) } catch { ...; return ... }
StageAfterDetection(outcome) == IF outcome.thrown THEN "upload:rejected" ELSE "normalize:loop"

\* uploadStatement, step 2: detectColumns(headers); a thrown error is sent as
\* the response and ends the request, otherwise normalizeRows is entered
UploadDetectColumns ==
    /\ stage = "upload:parsed"
    /\ LET assigned == AssignFields(1, headers, [i \in DOMAIN headers |-> NormalizeHeader(headers[i])],
                                    NewMapping, NewUsedHeaders)
           outcome == DetectionOutcome(headers, assigned.mapping, assigned.usedHeaders)
       IN  /\ mapping' = assigned.mapping
           /\ usedHeaders' = assigned.usedHeaders
           /\ detection' = outcome
           /\ stage' = StageAfterDetection(outcome)
           /\ position' = IF StageAfterDetection(outcome) = "upload:rejected" THEN position ELSE 1
           /\ response' = IF outcome.thrown THEN DetectionErrorResponse(outcome) ELSE response
           /\ cleanups' = IF outcome.thrown THEN cleanupFile(cleanups, file.path) ELSE cleanups
           /\ sent' = IF outcome.thrown THEN sent + 1 ELSE sent
    /\ normalized' = <<>>
    /\ UNCHANGED <<headers, rows, tzHours, previous, calls, stats, riskVars, batchVars, stored, file>>

\* The loop of normalizeRows ending at the first row that does not normalize
NormalizeNextRowOrStop ==
    /\ stage = "normalize:loop"
    /\ position <= Len(rows)
    /\ normalized' = normalized \o normalizeRow(rows[position], detection.mapping,
                                                detection.hasDebitCredit, tzHours)
    /\ position' = position + 1
    /\ stage' = IF normalizeRow(rows[position], detection.mapping,
                                detection.hasDebitCredit, tzHours) = <<>>
                THEN "normalize:returned" ELSE stage
    /\ UNCHANGED <<headers, rows, tzHours, mapping, usedHeaders, detection,
                   previous, calls, stats, riskVars, batchVars, uploadVars>>

\* One iteration of the loop of normalizeRows
NormalizeNextRow ==
    /\ stage = "normalize:loop"
    /\ position <= Len(rows)
    /\ normalized' = normalized \o normalizeRow(rows[position], detection.mapping,
                                                detection.hasDebitCredit, tzHours)
    /\ position' = position + 1
    /\ UNCHANGED <<stage, headers, rows, tzHours, mapping, usedHeaders, detection,
                   previous, calls, stats, riskVars, batchVars, uploadVars>>

\* return normalized
NormalizeReturn ==
    /\ stage = "normalize:loop"
    /\ position > Len(rows)
    /\ stage' = "normalize:returned"
    /\ UNCHANGED <<stats, riskVars, batchVars, columnVars, normVars, uploadVars>>

\* { ...t, uploadBatchId }: the identifier is made of the clock and a random
\* number and is the same for the whole upload
WithBatchId(txs) ==
    [i \in DOMAIN txs |->
        [f \in DOMAIN txs[i] \cup {"uploadBatchId"} |->
            IF f = "uploadBatchId" THEN "batch" ELSE txs[i][f]]]

\* uploadStatement: no transaction was normalized
UploadNoTransactions ==
    /\ stage = "normalize:returned"
    /\ Len(normalized) = 0
    /\ response' = [status |-> 400,
                    body |-> [success |-> FALSE,
                              error |-> "No valid transactions could be extracted. Rows may have invalid dates or zero amounts.",
                              totalRowsParsed |-> Len(rows)]]
    /\ cleanups' = cleanupFile(cleanups, file.path)
    /\ sent' = sent + 1
    /\ stage' = "upload:responded"
    /\ UNCHANGED <<stats, riskVars, batchVars, columnVars, normVars, stored, file>>

\* uploadStatement, step 4: the batch identifier is attached and
\* analyzeTransactions is called
UploadAnalyze ==
    /\ stage = "normalize:returned"
    /\ Len(normalized) > 0
    /\ transactions' = WithBatchId(normalized)
    /\ analyzed' = analyzeTransactions(WithBatchId(normalized))
    /\ stage' = "upload:analyzed"
    /\ UNCHANGED <<normalCount, mediumCount, highCount, riskDistribution, stats, riskVars,
                   columnVars, normVars, uploadVars>>

\* uploadStatement, step 5: Transaction.insertMany stores the analysed transactions
UploadStore ==
    /\ stage = "upload:analyzed"
    /\ stored' = analyzed
    /\ stage' = "upload:stored"
    /\ UNCHANGED <<stats, riskVars, batchVars, columnVars, normVars, response, file, cleanups, sent>>

\* The catch block answering 500 without the cleanup
UploadStoreFailsNoCleanup ==
    /\ stage = "upload:analyzed"
    /\ response' = ErrorResponse
    /\ sent' = sent + 1
    /\ stage' = "upload:responded"
    /\ UNCHANGED <<stats, riskVars, batchVars, columnVars, normVars, stored, file, cleanups>>

\* uploadStatement, step 5, Transaction.insertMany rejects: the catch block
\* cleans up and answers 500
UploadStoreFails ==
    /\ stage = "upload:analyzed"
    /\ cleanups' = IF file.path # "" THEN cleanupFile(cleanups, file.path) ELSE cleanups
    /\ response' = ErrorResponse
    /\ sent' = sent + 1
    /\ stage' = "upload:responded"
    /\ UNCHANGED <<stats, riskVars, batchVars, columnVars, normVars, stored, file>>

\* The body of the 200 response
UploadSummary(savedTransactions, dist, rowCount, transactionCount) ==
    [status |-> 200,
     body |-> [success |-> TRUE,
               totalProcessed |-> Len(savedTransactions),
               uploadBatchId |-> "batch",
               columnsDetected |-> mapping,
               riskDistribution |-> dist,
               summary |-> [totalRowsParsed |-> rowCount,
                            totalNormalized |-> transactionCount,
                            totalStored |-> Len(savedTransactions),
                            skippedRows |-> rowCount - transactionCount]]]

\* uploadStatement: cleanupFile, the risk distribution and the 200 response
UploadRespond ==
    /\ stage = "upload:stored"
    /\ riskDistribution' = CountLevels([Normal |-> 0, Medium |-> 0, High |-> 0], stored)
    /\ response' = UploadSummary(stored, CountLevels([Normal |-> 0, Medium |-> 0, High |-> 0], stored),
                                 Len(rows), Len(transactions))
    /\ cleanups' = cleanupFile(cleanups, file.path)
    /\ sent' = sent + 1
    /\ stage' = "upload:responded"
    /\ UNCHANGED <<transactions, analyzed, normalCount, mediumCount, highCount, stats, riskVars,
                   columnVars, normVars, stored, file>>

NextNorm == UploadDetectColumns \/ NormalizeNextRow \/ NormalizeReturn

SpecNorm == InitNorm /\ [][NextNorm]_vars

\* uploadStatement from the parsed file to the response, on files whose
\* amounts are a few hundredths
InitUpload ==
    /\ stage = "upload:parsed"
    /\ headers \in UploadHeaderLists
    /\ rows \in UNION { [1..n -> UploadRowsFor(headers)] : n \in 1..MaxUploadRows }
    /\ tzHours \in TimeZones
    /\ position = 0
    /\ normalized = <<>>
    /\ mapping = <<>> /\ usedHeaders = {}
    /\ detection = Idle /\ previous = Idle /\ calls = Idle
    /\ stats = Idle
    /\ transaction = Idle /\ risk = Idle /\ probe = Idle
    /\ transactions = <<>> /\ analyzed = <<>>
    /\ normalCount = Idle /\ mediumCount = Idle /\ highCount = Idle
    /\ riskDistribution = Idle
    /\ stored = <<>>
    /\ response = NoResponse
    /\ file = CsvFile /\ cleanups = <<>> /\ sent = 0

NextUpload ==
    \/ UploadDetectColumns \/ NormalizeNextRow \/ NormalizeReturn
    \/ UploadNoTransactions \/ UploadAnalyze \/ UploadStore \/ UploadStoreFails \/ UploadRespond

SpecUpload == InitUpload /\ [][NextUpload]_vars

\* The rows the loop of normalizeRows has passed
Processed == IF stage \in {"normalize:loop", "normalize:returned"} THEN 1..(position - 1) ELSE {}

\* The transactions normalizeRows has pushed
Outputs == IF stage \in {"normalize:loop", "normalize:returned"} THEN Range(normalized) ELSE {}

\* C9: every transaction output by normalizeRows has a non-zero amount (a row
\* whose amount is zero after all fallbacks is discarded).
C9_OutputAmountsNonZero == \A t \in Outputs : t.amount # 0

\* The Dates parseDate builds for a cleaned string, in the order it tries
\* them: timestamp, year-first, day-first, free-form
DateAttempts(cleaned, tz) ==
    (IF IsTimestamp(cleaned) THEN <<NewDateOfTimestamp(cleaned, Len(cleaned) = 10, tz)>> ELSE <<>>)
    \o (IF IsYearFirst(cleaned) THEN <<NewDate(cleaned, tz)>> ELSE <<>>)
    \o (IF DmyMatch(cleaned) # <<>> THEN <<DateOfDmy(DmyMatch(cleaned), tz)>> ELSE <<>>)
    \o <<NewDate(cleaned, tz)>>

YearInRange(d) == d.valid /\ d.year \in 1990..2100

\* The first attempt whose year is in range, or <<>>
FirstInRange(attempts) ==
    LET hits == { i \in DOMAIN attempts : YearInRange(attempts[i]) }
    IN  IF hits = {} THEN <<>>
        ELSE << attempts[CHOOSE i \in hits : \A j \in hits : i <= j] >>

FirstInRangeTable ==
    [tz \in TimeZones |-> [str \in DateCells |-> FirstInRange(DateAttempts(Trim(str), tz))]]

AttemptsTable == [tz \in TimeZones |-> [str \in DateCells |-> DateAttempts(Trim(str), tz)]]

\* The date cell of a row as normalizeRow reads it
DateCell(row) == getField(row, detection.mapping, "date")

\* C10: every transaction output by normalizeRows has a date whose year is in
\* [1990, 2100]; parseDate returns the first of its attempts (timestamp,
\* year-first, day-first with two-digit years expanded, free-form) whose year
\* is in that range; a row with no such attempt is discarded.
C10_DatesInRange ==
    /\ \A t \in Outputs : t.date.valid /\ t.date.year >= 1990 /\ t.date.year <= 2100
    /\ \A i \in Processed :
        LET cell == DateCell(rows[i])
            first == FirstInRangeTable[tzHours][cell]
            parsed == ParseDateTable[tzHours][cell]
        IN  /\ cell # "" /\ first # <<>> => parsed = first[1]
            /\ cell = "" \/ first = <<>> =>
                /\ ~parsed.valid
                /\ \A t \in Outputs : t.metadata # rows[i]
            /\ \A t \in Outputs : t.metadata = rows[i] => t.date = first[1]

\* A file is normalized in which one row's date is accepted only by a later
\* attempt, an earlier one having matched its format, and another row is
\* discarded for a date that parses to a year out of range
C10_Witness ==
    /\ stage = "normalize:returned"
    /\ \E i, j \in Processed :
        LET ai == AttemptsTable[tzHours][DateCell(rows[i])]
            aj == AttemptsTable[tzHours][DateCell(rows[j])]
        IN  /\ Len(ai) >= 2 /\ ~YearInRange(ai[1]) /\ FirstInRange(ai) # <<>>
            /\ \E t \in Outputs : t.metadata = rows[i]
            /\ \E k \in DOMAIN aj : aj[k].valid
            /\ FirstInRange(aj) = <<>>
            /\ \A t \in Outputs : t.metadata # rows[j]

(***************************************************************************)
(* Claims about uploadStatement (specification SpecUpload)                 *)
(***************************************************************************)
\* detectColumns has been called and has thrown
DetectionFailed == stage # "upload:parsed" /\ detection.thrown

\* C14: when detectColumns fails the upload ends there: no row is normalized,
\* nothing is scored or stored, and the response is the structured error
\* (success false, "Required columns not found", missing, detectedHeaders,
\* suggestion) with status 400; rows are normalized only with the mapping of
\* a successful detection, which has a date and an amount, debit or credit.
C14_DetectionFailureIsFatal ==
    /\ DetectionFailed =>
          /\ stage = "upload:rejected"
          /\ position = 0 /\ normalized = <<>>
          /\ transactions = <<>> /\ analyzed = <<>> /\ stored = <<>>
          /\ response.status = 400
          /\ response.body.success = FALSE
          /\ response.body.error = "Required columns not found"
          /\ response.body.missing =
                (IF "date" \in DOMAIN mapping THEN <<>> ELSE <<"date">>)
                \o (IF DOMAIN mapping \cap {"amount", "debit", "credit"} # {}
                    THEN <<>> ELSE <<"amount (or debit/credit)">>)
          /\ Len(response.body.missing) > 0
          /\ response.body.detectedHeaders = headers
          /\ response.body.suggestion # ""
          /\ DOMAIN response.body = {"success", "error", "missing", "detectedHeaders", "suggestion"}
    /\ stage \notin {"upload:parsed", "upload:rejected"} =>
          /\ ~detection.thrown
          /\ detection.mapping = mapping
          /\ "date" \in DOMAIN mapping
          /\ DOMAIN mapping \cap {"amount", "debit", "credit"} # {}

\* An upload was rejected for its missing date column although its amount and
\* category columns had been matched
C14_Witness ==
    /\ stage = "upload:rejected"
    /\ DOMAIN mapping = {"amount", "category"}
    /\ response.body.missing = <<"date">>
    /\ Len(rows) = 2

\* The rows the loop of normalizeRows has passed, once normalization has begun
RowsPassed ==
    IF stage \in {"upload:parsed", "upload:rejected"} THEN {}
    ELSE IF stage = "normalize:loop" THEN 1..(position - 1)
    ELSE DOMAIN rows

\* The passed rows for which normalizeRow returns a transaction
RowsKept ==
    { i \in RowsPassed :
        normalizeRow(rows[i], detection.mapping, detection.hasDebitCredit, tzHours) # <<>> }

\* The k-th smallest member of a set of numbers
KthOf(S, k) == CHOOSE i \in S : Cardinality({ j \in S : j < i }) = k - 1

\* C15: a row that does not normalize never fails the batch: normalizeRows
\* returns, in the order of the file, exactly the transactions of the rows
\* that normalize, never more than the rows parsed, and the 200 response
\* reports skippedRows = totalRowsParsed - totalNormalized >= 0; the only 500
\* answer of the model comes after normalization and scoring are over.
C15_MalformedRowsSkipped ==
    /\ stage \notin {"upload:parsed", "upload:rejected"} =>
          /\ Len(normalized) = Cardinality(RowsKept)
          /\ Len(normalized) <= Len(rows)
          /\ \A k \in DOMAIN normalized :
                normalized[k] = normalizeRow(rows[KthOf(RowsKept, k)], detection.mapping,
                                             detection.hasDebitCredit, tzHours)[1]
    /\ stage = "upload:responded" /\ response.status = 200 =>
          /\ response.body.summary.totalRowsParsed = Len(rows)
          /\ response.body.summary.totalNormalized = Len(normalized)
          /\ response.body.summary.skippedRows =
                response.body.summary.totalRowsParsed - response.body.summary.totalNormalized
          /\ response.body.summary.skippedRows = Len(rows) - Cardinality(RowsKept)
          /\ response.body.summary.skippedRows >= 0
    /\ stage = "upload:responded" /\ response.status = 500 => Len(analyzed) > 0

\* A file of three rows whose second row does not normalize was answered with
\* 200: the first and third rows are the two transactions, in that order, and
\* one row is reported skipped
C15_Witness ==
    /\ stage = "upload:responded" /\ response.status = 200
    /\ Len(rows) = 3
    /\ RowsKept = {1, 3}
    /\ rows[1] # rows[3]
    /\ normalized[1].metadata = rows[1] /\ normalized[2].metadata = rows[3]
    /\ response.body.summary.skippedRows = 1

(***************************************************************************)
(* The end-to-end scenario: a batch of 20 transactions analysed by         *)
(* analyzeTransactions. Amounts are in hundreds: 19 stands for 1900 and    *)
(* the mean 10 for 1000. The amounts are 19 once, 10 ten times and 9 nine  *)
(* times; the population standard deviation of a batch of 20 that holds a  *)
(* value 900 above its mean 1000 is at least 900 / sqrt(19) = 206.5, here  *)
(* it is sqrt(4.5) hundreds = 212.                                         *)
(***************************************************************************)
ScenarioAmounts == <<19>> \o [i \in 1..10 |-> 10] \o [i \in 1..9 |-> 9]

\* The hours of the other transactions: all at 14:00, spread over the working
\* day, or evenings and mornings
ScenarioHourLayouts ==
    { [i \in 1..20 |-> 14],
      [i \in 1..20 |-> 9 + (i % 9)],
      [i \in 1..20 |-> IF i % 2 = 0 THEN 20 ELSE 8],
      [i \in 1..20 |-> 12 + (i % 2)] }

\* One category, or two categories of about the same total
ScenarioCategoryLayouts ==
    { [i \in 1..20 |-> "Food"],
      [i \in 1..20 |-> IF i % 2 = 0 THEN "Food" ELSE "Rent"] }

\* One week, or two weeks of ten transactions each
ScenarioWeekLayouts ==
    { [i \in 1..20 |-> 202401],
      [i \in 1..20 |-> IF i <= 10 THEN 202401 ELSE 202402] }

\* The batch whose transaction of amount 19 at 3am is at position p: the
\* other amounts follow in the order of ScenarioAmounts
ScenarioBatch(p, hours, categories, weeks) ==
    [i \in 1..20 |->
        LET a == IF i = p THEN ScenarioAmounts[1]
                 ELSE IF i < p THEN ScenarioAmounts[i + 1] ELSE ScenarioAmounts[i]
        IN  [date |-> [valid |-> TRUE, hour |-> IF i = p THEN 3 ELSE hours[i], weekKey |-> weeks[i]],
             amount |-> a,
             type |-> "credit",
             category |-> categories[i],
             description |-> "",
             metadata |-> [Category |-> categories[i]],
             anomalyScore |-> 0,
             riskLevel |-> "Normal"]]

ScenarioBatches ==
    { ScenarioBatch(p, h, c, w) :
        p \in {1, 7, 20}, h \in ScenarioHourLayouts, c \in ScenarioCategoryLayouts, w \in ScenarioWeekLayouts }

InitScenario ==
    /\ stage = "analyze:call"
    /\ transactions \in ScenarioBatches
    /\ analyzed = <<>>
    /\ normalCount = 0 /\ mediumCount = 0 /\ highCount = 0
    /\ riskDistribution = Idle
    /\ stats = Idle
    /\ transaction = Idle /\ risk = Idle /\ probe = Idle
    /\ ColumnsIdle
    /\ NormIdle
    /\ UploadIdle

SpecScenario == InitScenario /\ [][NextBatch]_vars

\* The positions of the analysed transactions of amount 1900 at 3am
ScenarioOutliers ==
    { i \in DOMAIN analyzed : analyzed[i].amount = 19 /\ analyzed[i].date.hour = 3 }

\* C16 as stated: in the batch of 20 with mean 1000, the transaction of
\* amount 1900 at 3am scores 40 + 15 = 55 and is classified Medium.
C16_ScenarioScores55 ==
    \A i \in ScenarioOutliers :
        analyzed[i].anomalyScore = 55 /\ analyzed[i].riskLevel = "Medium"

\* C16, amended: in the batch of 20 with mean 1000, the transaction of amount
\* 1900 at 3am has an extreme z-score (40 points), is below twice the mean (no
\* high-value points) and its hour is a peak hour, as is every hour in which
\* a transaction of the batch occurs (the half-average threshold of a batch
\* of 20 is below one transaction), so no unusual-hour points are added: it
\* scores 40 and is classified Medium.
C16_ScenarioScores40 ==
    /\ stage \in {"analyze:scoring", "analyze:counted"} =>
          /\ Len(transactions) = 20
          /\ stats.mean.n = 10 * stats.mean.d
          /\ 2 * stats.stdDevSq.n = 9 * stats.stdDevSq.d
          /\ \A i \in DOMAIN transactions : transactions[i].date.hour \in stats.peakHours
          /\ 3 \in stats.peakHours
    /\ \A i \in ScenarioOutliers :
          /\ ZScoreAbove(19, stats, ZSCORE_EXTREME)
          /\ ~(19 > HIGH_VALUE_MULTIPLIER * 10)
          /\ analyzed[i].anomalyScore = POINTS_ZSCORE_EXTREME
          /\ analyzed[i].anomalyScore = 40
          /\ analyzed[i].riskLevel = "Medium"

\* The batch whose other transactions all occur at 14:00 has been analysed:
\* the transaction of 1900, alone at 3am, has its score
C16_Witness ==
    /\ stage = "analyze:counted"
    /\ Len(analyzed) = 20
    /\ ScenarioOutliers = {7}
    /\ \A i \in DOMAIN transactions : i # 7 => transactions[i].date.hour = 14
    /\ analyzed[7].anomalyScore = 40

(***************************************************************************)
(* Claims about parseAmount (specification SpecNorm, files with a single   *)
(* amount column)                                                          *)
(***************************************************************************)
\* The amount cell of the row a transaction was built from, without its whitespace
AmountCellOf(t) == RemoveChars(getField(t.metadata, detection.mapping, "amount"), {" ", "\t"})

\* C17: in parseAmount a trailing Dr forces the negative magnitude whatever
\* sign was parsed before it, a trailing Cr forces the positive magnitude, and
\* a fully parenthesized value is negative; stated on the transactions that
\* normalizeRows builds from a single amount column, whose amount is the
\* rounded value of parseAmount.
C17_SuffixForcesSign ==
    \A t \in Outputs :
        ~detection.hasDebitCredit =>
            /\ SuffixLength(AmountCellOf(t), "dr") > 0 => t.amount < 0
            /\ SuffixLength(AmountCellOf(t), "dr") = 0 /\ SuffixLength(AmountCellOf(t), "cr") > 0 =>
                  t.amount > 0
            /\ IsParenNegative(AmountCellOf(t)) => t.amount < 0

(***************************************************************************)
(* Scoring in any order.  transactions.map calls its callback for the      *)
(* indexes in increasing order; here the callback is called for the        *)
(* indexes in every order, and analyzed maps the indexes already scored to *)
(* the objects returned for them (it is the array once all are scored).    *)
(***************************************************************************)
OrderTransactions == { t \in BatchTransactions : t.date.weekKey = 202401 }

InitOrder ==
    /\ stage = "analyze:call"
    /\ transactions \in UNION { [1..n -> OrderTransactions] : n \in 2..MaxBatch }
    /\ analyzed = <<>>
    /\ normalCount = 0 /\ mediumCount = 0 /\ highCount = 0
    /\ riskDistribution = Idle
    /\ stats = Idle
    /\ transaction = Idle /\ risk = Idle /\ probe = Idle
    /\ ColumnsIdle
    /\ NormIdle
    /\ UploadIdle

\* The transactions at the indexes of S, in the order of the batch
SubBatch(S) == [k \in 1..Cardinality(S) |-> transactions[KthOf(S, k)]]

\* Statistics recomputed at each call over the transactions scored so far and
\* the one being scored
RunningStats(i) == BatchStatistics(SubBatch(DOMAIN analyzed \cup {i}))

\* The stats object the callback passes to calculateRisk for index i
ScoringStats(i) == stats

\* One call of the callback of transactions.map, for any index not yet scored
ScoreAnyTransaction ==
    /\ stage = "analyze:scoring"
    /\ \E i \in DOMAIN transactions \ DOMAIN analyzed :
          /\ analyzed' = [j \in DOMAIN analyzed \cup {i} |->
                             IF j = i
                             THEN WithRisk(transactions[i],
                                           calculateRisk(transactions[i], ScoringStats(i)).anomalyScore,
                                           calculateRisk(transactions[i], ScoringStats(i)).riskLevel)
                             ELSE analyzed[j]]
          /\ normalCount' = Tally(<<normalCount, mediumCount, highCount>>,
                                  calculateRisk(transactions[i], ScoringStats(i)).riskLevel)[1]
          /\ mediumCount' = Tally(<<normalCount, mediumCount, highCount>>,
                                  calculateRisk(transactions[i], ScoringStats(i)).riskLevel)[2]
          /\ highCount' = Tally(<<normalCount, mediumCount, highCount>>,
                                calculateRisk(transactions[i], ScoringStats(i)).riskLevel)[3]
          /\ stage' = IF DOMAIN analyzed \cup {i} = DOMAIN transactions
                      THEN "analyze:counted" ELSE "analyze:scoring"
    /\ UNCHANGED <<transactions, stats, riskDistribution, riskVars, columnVars, normVars, uploadVars>>

NextOrder == AnalyzeTransactions \/ ScoreAnyTransaction \/ UploadRiskDistribution

SpecOrder == InitOrder /\ [][NextOrder]_vars

\* The indexes scored so far
Scored == IF stage = "analyze:call" THEN {} ELSE DOMAIN analyzed

\* Every scored transaction has the score and level of the sequential analysis
ScoredAsSequential ==
    /\ stage = "analyze:scoring" => stats = BatchStatistics(transactions)
    /\ \A i \in Scored :
          /\ analyzed[i].anomalyScore = analyzeTransactions(transactions)[i].anomalyScore
          /\ analyzed[i].riskLevel = analyzeTransactions(transactions)[i].riskLevel

\* A scoring call leaves the statistics and the results of the other
\* transactions as they were
ScoringWritesOneResult ==
    stage = "analyze:scoring" =>
        /\ stats' = stats
        /\ \A i \in Scored : analyzed'[i] = analyzed[i]

\* C18: the statistics are complete before the first scoring call and are not
\* written during scoring; in whatever order the transactions are scored,
\* each gets the anomalyScore and riskLevel of the sequential analysis, and a
\* scoring call changes no other transaction's result.
C18_ScoringOrderIrrelevant == []ScoredAsSequential /\ [][ScoringWritesOneResult]_vars

\* The last transaction of a batch of three has been scored before the first
\* two, and its score differs from the one the first gets
C18_Witness ==
    /\ stage = "analyze:scoring"
    /\ Len(transactions) = 3
    /\ Scored = {3}
    /\ analyzed[3].anomalyScore > 0
    /\ analyzed[3].anomalyScore # analyzeTransactions(transactions)[1].anomalyScore

(***************************************************************************)
(* Claims about the assignment of headers to fields (specification         *)
(* SpecColumns)                                                            *)
(***************************************************************************)
\* The score of header i of the state for field f
HeaderScore(i, f) == ScoreTable[NormalizeHeader(headers[i])][f]

\* The header index the greedy pass gives to field f when the earlier fields
\* have taken the headers of taken, or 0: the first of the free headers of
\* greatest positive score
NextChoice(f, taken) ==
    LET free == DOMAIN headers \ taken
        top == Max({0} \cup { HeaderScore(i, f) : i \in free })
    IN  IF top = 0 THEN 0
        ELSE CHOOSE i \in free :
                /\ HeaderScore(i, f) = top
                /\ \A j \in free : HeaderScore(j, f) = top => i <= j

\* The choices of the greedy pass for all the fields, in their order
RECURSIVE GreedyChoices(_)
GreedyChoices(chosen) ==
    IF Len(chosen) = Len(FIELD_PATTERNS) THEN chosen
    ELSE GreedyChoices(Append(chosen, NextChoice(Len(chosen) + 1, Range(chosen))))

\* A positive score of a header for a field is 1000 - k, 500 - k or 200 - k
\* for a keyword of index k of the field that the header equals, starts with
\* (followed by '_' or ' ') or contains
ScoreIsOfAKeyword(h, f) ==
    \E k \in DOMAIN FIELD_PATTERNS[f].keywords :
        LET keyword == FIELD_PATTERNS[f].keywords[k]
        IN  \/ h = keyword /\ ScoreTable[h][f] = 1000 - (k - 1)
            \/ /\ h # keyword
               /\ StartsWith(h, keyword \o "_") \/ StartsWith(h, keyword \o " ")
               /\ ScoreTable[h][f] = 500 - (k - 1)
            \/ /\ h # keyword
               /\ ~(StartsWith(h, keyword \o "_") \/ StartsWith(h, keyword \o " "))
               /\ Includes(h, keyword)
               /\ ScoreTable[h][f] = 200 - (k - 1)

\* ScoreIsOfAKeyword for the normalized headers of the pool, computed once
ScoreIsOfAKeywordTable ==
    [h \in { NormalizeHeader(x) : x \in HeaderPool } |->
        [f \in DOMAIN FIELD_PATTERNS |-> ScoreIsOfAKeyword(h, f)]]

\* The mapping and usedHeaders of the state are those of the choices
MappingIsGreedy(choice) ==
    /\ usedHeaders = Range(choice) \ {0}
    /\ \A f \in DOMAIN FIELD_PATTERNS :
          /\ choice[f] = 0 <=> FIELD_PATTERNS[f].field \notin DOMAIN mapping
          /\ choice[f] # 0 =>
                /\ mapping[FIELD_PATTERNS[f].field] = headers[choice[f]]
                /\ HeaderScore(choice[f], f) > 0
                /\ ScoreIsOfAKeywordTable[NormalizeHeader(headers[choice[f]])][f]
                /\ \A g \in DOMAIN FIELD_PATTERNS : g # f => choice[g] # choice[f]
                /\ \A i \in DOMAIN headers :
                      i \notin { choice[g] : g \in 1..(f - 1) } =>
                          HeaderScore(i, f) <= HeaderScore(choice[f], f)
          /\ choice[f] = 0 =>
                \A i \in DOMAIN headers :
                    i \notin { choice[g] : g \in 1..(f - 1) } => HeaderScore(i, f) = 0

\* C19: the fields are served in the order date, amount, debit, credit,
\* description, category, transactionId; each takes the header of greatest
\* positive score (1000 - k exact, 500 - k prefix, 200 - k substring) among
\* those no earlier field has taken, and none if no free header scores; a
\* taken header is given to no later field, whatever that field's score for it.
C19_GreedyAssignment ==
    /\ [f \in DOMAIN FIELD_PATTERNS |-> FIELD_PATTERNS[f].field] =
          <<"date", "amount", "debit", "credit", "description", "category", "transactionId">>
    /\ calls > 0 => MappingIsGreedy(GreedyChoices(<<>>))

\* "Credit Date" is the only header: date takes it for its substring score
\* and credit, whose prefix score for it is greater, gets nothing
C19_Witness ==
    /\ calls > 0
    /\ headers = <<"Credit Date">>
    /\ mapping = [date |-> "Credit Date"]
    /\ HeaderScore(1, 4) > HeaderScore(1, 1)
    /\ HeaderScore(1, 1) > 0

\* The keywords of a field a header is related to, as pairs <<k, relation>>
KeywordRelations(h, f) ==
    { <<k, r>> \in (DOMAIN FIELD_PATTERNS[f].keywords) \X {"exact", "prefix", "substring"} :
        LET keyword == FIELD_PATTERNS[f].keywords[k]
        IN  \/ r = "exact" /\ h = keyword
            \/ r = "prefix" /\ (StartsWith(h, keyword \o "_") \/ StartsWith(h, keyword \o " "))
            \/ r = "substring" /\ Len(keyword) >= 4 /\ Includes(h, keyword) }

\* A header gets a positive score from a short keyword of a field only by
\* equality or prefix
ShortKeywordsByPrefixOnly(h, f) ==
    \A k \in DOMAIN FIELD_PATTERNS[f].keywords :
        LET keyword == FIELD_PATTERNS[f].keywords[k]
        IN  Len(keyword) < 4 /\ MatchScore(h, keyword, k - 1) > 0 =>
                \/ h = keyword
                \/ StartsWith(h, keyword \o "_")
                \/ StartsWith(h, keyword \o " ")

\* The two facts above for the normalized headers of the pool, computed once
KeywordTable ==
    [h \in { NormalizeHeader(x) : x \in HeaderPool } |->
        [f \in DOMAIN FIELD_PATTERNS |->
            [related |-> KeywordRelations(h, f) # {},
             shortByPrefixOnly |-> ShortKeywordsByPrefixOnly(h, f)]]]

\* C20: a keyword shorter than 4 characters gives a header a positive score
\* only when the header equals it or starts with it followed by '_' or ' ';
\* so every header mapped to a field equals, or starts in that way with, a
\* keyword of the field, or contains one of its keywords of 4 or more characters.
C20_ShortKeywordsNoSubstring ==
    /\ \A i \in DOMAIN headers : \A f \in DOMAIN FIELD_PATTERNS :
          KeywordTable[NormalizeHeader(headers[i])][f].shortByPrefixOnly
    /\ calls > 0 =>
          \A f \in DOMAIN FIELD_PATTERNS :
              FIELD_PATTERNS[f].field \in DOMAIN mapping =>
                  \E i \in usedHeaders :
                      /\ headers[i] = mapping[FIELD_PATTERNS[f].field]
                      /\ KeywordTable[NormalizeHeader(headers[i])][f].related

\* "Drawer" contains the short keyword dr and is left unmapped, while "Dr"
\* equals it and is the debit column
C20_Witness ==
    /\ calls > 0
    /\ headers = <<"Date", "Drawer", "Dr">>
    /\ mapping = [date |-> "Date", debit |-> "Dr"]
    /\ usedHeaders = {1, 3}
    /\ Includes(NormalizeHeader(headers[2]), "dr")

(***************************************************************************)
(* Claims about the amount and type of normalized rows (specification      *)
(* SpecNorm)                                                               *)
(***************************************************************************)
\* The parsed cell of a row in the column mapped to a field (0 when the field
\* is not mapped)
CellValue(row, field) == ParsedAmount(getField(row, detection.mapping, field))

\* What the precedence of the debit/credit mode makes of a row with a valid
\* date: <<>> when it is discarded, or the amount before rounding and the type
PrecedenceResult(row) ==
    IF CellValue(row, "debit") > 0
    THEN << [amount |-> -Abs(CellValue(row, "debit")), type |-> "debit"] >>
    ELSE IF CellValue(row, "credit") > 0
    THEN << [amount |-> Abs(CellValue(row, "credit")), type |-> "credit"] >>
    ELSE IF IsMapped(detection.mapping, "amount") /\ CellValue(row, "amount") # 0
    THEN << [amount |-> CellValue(row, "amount"),
             type |-> IF CellValue(row, "amount") < 0 THEN "debit" ELSE "credit"] >>
    ELSE <<>>

\* The passed rows with a valid date that the precedence does not discard
PrecedenceKept ==
    { i \in RowsPassed :
        /\ ParsedDate(getField(rows[i], detection.mapping, "date"), tzHours).valid
        /\ PrecedenceResult(rows[i]) # <<>> }

\* C21: in debit/credit mode a positive debit value gives amount -|debit| and
\* type debit even beside a positive credit value; otherwise a positive credit
\* value gives +|credit| and type credit; otherwise a mapped amount column is
\* used and its sign sets the type; otherwise the amount is zero and the row
\* is discarded. Stated on the transactions normalizeRows has pushed, whose
\* amounts are rounded to two decimals.
C21_DebitCreditPrecedence ==
    stage \in {"normalize:loop", "normalize:returned"} /\ detection.hasDebitCredit =>
        /\ Len(normalized) = Cardinality(PrecedenceKept)
        /\ \A k \in DOMAIN normalized :
              LET expected == PrecedenceResult(rows[KthOf(PrecedenceKept, k)])[1]
              IN  /\ normalized[k].amount = roundAmount(expected.amount)
                  /\ normalized[k].type = expected.type
                  /\ normalized[k].metadata = rows[KthOf(PrecedenceKept, k)]

\* A file with debit, credit and amount columns was normalized: its first row
\* has a positive debit and a positive credit and is a debit, its second row
\* has neither and takes the negative amount column
C21_Witness ==
    /\ stage = "normalize:returned"
    /\ detection.hasDebitCredit /\ IsMapped(detection.mapping, "amount")
    /\ Len(rows) = 2 /\ Len(normalized) = 2
    /\ CellValue(rows[1], "debit") > 0 /\ CellValue(rows[1], "credit") > 0
    /\ normalized[1].type = "debit" /\ normalized[1].amount = -CellValue(rows[1], "debit")
    /\ CellValue(rows[2], "debit") = 0 /\ CellValue(rows[2], "credit") = 0
    /\ normalized[2].amount = CellValue(rows[2], "amount") /\ normalized[2].type = "debit"

(***************************************************************************)
(* Claims about the amount the signals of calculateRisk read               *)
(* (specification Spec)                                                    *)
(***************************************************************************)
\* amount > 2 x mean with mean > 0, for the statistics of the state
AboveTwiceMean(amount) ==
    stats.mean.n > 0 /\ amount * stats.mean.d > 2 * stats.mean.n

\* |amount - mean| / stdDev > 3 with stdDev > 0, for the statistics of the state
DeviatesExtremely(amount) ==
    /\ stats.stdDevSq.n > 0
    /\ (amount * stats.mean.d - stats.mean.n) * (amount * stats.mean.d - stats.mean.n)
          * stats.stdDevSq.d
       > 9 * stats.stdDevSq.n * stats.mean.d * stats.mean.d

\* C22 as stated: the high-value signal fires iff mean > 0 and amount > 2 x
\* mean, and the extreme-deviation signal fires iff stdDev > 0 and
\* |amount - mean| / stdDev > 3, amount being the transaction's signed amount.
C22_SignalsOnSignedAmount ==
    stage = "risk:returned" =>
        /\ F_HIGH_VALUE \in Range(risk.riskFactors) <=> AboveTwiceMean(transaction.amount)
        /\ F_EXTREME \in Range(risk.riskFactors) <=> DeviatesExtremely(transaction.amount)

\* C22, amended: the high-value signal (+30) fires iff mean > 0 and
\* |amount| > 2 x mean, and the extreme-deviation signal (+40) fires iff
\* stdDev > 0 and ||amount| - mean| / stdDev > 3: both read the absolute value
\* of the transaction's amount, so a debit is scored as the credit of the same
\* magnitude; for an amount that is not negative this is the stated condition.
C22_SignalsOnAbsoluteAmount ==
    stage = "risk:returned" =>
        /\ F_HIGH_VALUE \in Range(risk.riskFactors) <=> AboveTwiceMean(Abs(transaction.amount))
        /\ F_EXTREME \in Range(risk.riskFactors) <=> DeviatesExtremely(Abs(transaction.amount))
        /\ F_HIGH_VALUE \in Range(risk.riskFactors) =>
              risk.anomalyScore >= POINTS_HIGH_VALUE
        /\ transaction.amount >= 0 =>
              /\ F_HIGH_VALUE \in Range(risk.riskFactors) <=> AboveTwiceMean(transaction.amount)
              /\ F_EXTREME \in Range(risk.riskFactors) <=> DeviatesExtremely(transaction.amount)
        /\ risk = calculateRisk([transaction EXCEPT !.amount = -transaction.amount], stats)

\* A debit was scored: the high-value signal fired for it although its signed
\* amount is below the mean, and no z-score signal fired although its signed
\* amount is more than three standard deviations from the mean
C22_Witness ==
    /\ stage = "risk:returned"
    /\ transaction.amount < 0
    /\ F_HIGH_VALUE \in Range(risk.riskFactors)
    /\ ~AboveTwiceMean(transaction.amount)
    /\ DeviatesExtremely(transaction.amount)
    /\ F_EXTREME \notin Range(risk.riskFactors)
    /\ F_MODERATE \notin Range(risk.riskFactors)

(***************************************************************************)
(* Hour distributions: analyzeTransactions on batches that differ only in  *)
(* the hours of their transactions.  Every amount is 1, there is one        *)
(* category and one week, so the unusual-hour signal is the only one that  *)
(* can fire.  An undated transaction (written -1 in the hour lists) has an *)
(* Invalid Date; the normalizer emits none, analyzeTransactions accepts    *)
(* them.                                                                   *)
(***************************************************************************)
Repeat(x, n) == [i \in 1..n |-> x]

HourLists ==
    { Repeat(h, 2) : h \in {0, 12, 23} }
    \cup { <<0, 23>>, <<-1, -1>>, <<-1, -1, 5>>, <<5, -1, 5>> }
    \cup { [i \in 1..n |-> 7 + i] : n \in {5, 6} }
    \cup { Repeat(14, n) \o <<3>> : n \in {47, 48, 49} }
    \cup { <<3>> \o Repeat(8, 10) \o Repeat(9, 10) \o Repeat(10, 10)
                \o Repeat(11, 10) \o Repeat(12, 10) \o Repeat(13, 10) }

\* The batch whose transactions have the hours of a list
HourBatch(hours) ==
    [i \in DOMAIN hours |->
        [date |-> IF hours[i] < 0 THEN [valid |-> FALSE, hour |-> 0, weekKey |-> 0]
                  ELSE [valid |-> TRUE, hour |-> hours[i], weekKey |-> 202401],
         amount |-> 1,
         type |-> "credit",
         category |-> "Food",
         description |-> "",
         metadata |-> [Category |-> "Food"],
         anomalyScore |-> 0,
         riskLevel |-> "Normal"]]

InitHours ==
    /\ stage = "analyze:call"
    /\ transactions \in { HourBatch(hours) : hours \in HourLists }
    /\ analyzed = <<>>
    /\ normalCount = 0 /\ mediumCount = 0 /\ highCount = 0
    /\ riskDistribution = Idle
    /\ stats = Idle
    /\ transaction = Idle /\ risk = Idle /\ probe = Idle
    /\ ColumnsIdle
    /\ NormIdle
    /\ UploadIdle

SpecHours == InitHours /\ [][NextBatch]_vars

\* The statistics of the batch have been computed
StatsReady ==
    /\ stage \in {"analyze:scoring", "analyze:counted", "upload:responded"}
    /\ Len(transactions) >= 2

\* The dated transactions of the batch, and those of an hour
DatedIndexes == { i \in DOMAIN transactions : transactions[i].date.valid }

CountAtHour(h) == Cardinality({ i \in DatedIndexes : transactions[i].date.hour = h })

\* The hours whose count is at least half of (dated transactions / 24)
BusyHours == { h \in 0..23 : 2 * 24 * CountAtHour(h) >= Cardinality(DatedIndexes) }

HourBefore(h) == IF h = 0 THEN 23 ELSE h - 1

HourAfter(h) == IF h = 23 THEN 0 ELSE h + 1

\* C23: the peak hours are exactly the hours whose count is at least half of
\* (dated transactions / 24); when there are fewer than 6 of them, they are
\* these hours plus the hour before and the hour after each (23 before 0, 0
\* after 23), added once; without any dated transaction all 24 hours are peak.
C23_PeakHours ==
    StatsReady =>
        /\ DatedIndexes = {} => stats.peakHours = 0..23
        /\ DatedIndexes # {} /\ Cardinality(BusyHours) >= 6 => stats.peakHours = BusyHours
        /\ DatedIndexes # {} /\ Cardinality(BusyHours) < 6 =>
              stats.peakHours = BusyHours \cup { HourBefore(h) : h \in BusyHours }
                                          \cup { HourAfter(h) : h \in BusyHours }

\* The statistics of the batch whose two transactions occur at 23:00: the
\* peak hours are 22, 23 and 0, and not 21 or 1
C23_Witness ==
    /\ StatsReady
    /\ Len(transactions) = 2
    /\ CountAtHour(23) = 2
    /\ stats.peakHours = {22, 23, 0}

\* C26: in a batch with at most 48 dated transactions the hour of every dated
\* transaction is a peak hour and no transaction gets the unusual-hour
\* points (the only ones a transaction of these batches can get); a
\* transaction that gets them is in a batch of more than 48 dated ones.
C26_NoUnusualHourUpTo48 ==
    /\ StatsReady /\ Cardinality(DatedIndexes) <= 48 =>
          /\ \A i \in DatedIndexes : transactions[i].date.hour \in stats.peakHours
          /\ \A i \in DOMAIN analyzed : analyzed[i].anomalyScore = 0
    /\ StatsReady =>
          \A i \in DOMAIN analyzed :
              /\ analyzed[i].anomalyScore \in {0, POINTS_UNUSUAL_HOUR}
              /\ analyzed[i].anomalyScore = POINTS_UNUSUAL_HOUR =>
                    /\ Cardinality(DatedIndexes) > 48
                    /\ transactions[i].date.valid
                    /\ transactions[i].date.hour \notin stats.peakHours

\* The batch of 48 dated transactions, 47 at 14:00 and one at 3:00, has been
\* scored: 3 is a peak hour, not reached by the expansion of 14, and the
\* transaction at 3:00 has score 0
C26_Witness ==
    /\ stage = "analyze:counted"
    /\ Cardinality(DatedIndexes) = 48
    /\ CountAtHour(3) = 1 /\ CountAtHour(14) = 47
    /\ stats.peakHours = {2, 3, 4, 13, 14, 15}
    /\ \A i \in DOMAIN analyzed : analyzed[i].anomalyScore = 0

\* The same batch with one more transaction at 14:00: the transaction at 3:00
\* gets the unusual-hour points
UnusualHourFiresAt49 ==
    /\ stage = "analyze:counted"
    /\ Cardinality(DatedIndexes) = 49
    /\ \E i \in DOMAIN analyzed :
          transactions[i].date.hour = 3 /\ analyzed[i].anomalyScore = POINTS_UNUSUAL_HOUR

(***************************************************************************)
(* The category and the weekly-frequency signals in analyzeTransactions    *)
(***************************************************************************)
NoSignals == [score |-> 0, riskFactors |-> <<>>]

\* The points a transaction of the batch gets from its amount and its hour
AmountAndHourPoints(tx) ==
    UnusualHourSignal(
        HighValueSignal(ZScoreSignal(NoSignals, Abs(tx.amount), stats), Abs(tx.amount), stats),
        tx, stats).score

\* The categories of the batch, the total of the absolute amounts of one,
\* and the total of all
BatchCategoryNames == { transactions[i].category : i \in DOMAIN transactions }

TotalOfCategory(c) ==
    SumSeq([i \in DOMAIN transactions |->
              IF transactions[i].category = c THEN Abs(transactions[i].amount) ELSE 0])

TotalOfAll == SumSeq([i \in DOMAIN transactions |-> Abs(transactions[i].amount)])

\* category total > 1.4 x (total of all / number of categories)
CategoryAboveAverage(c) ==
    10 * TotalOfCategory(c) * Cardinality(BatchCategoryNames) > 14 * TotalOfAll

\* C24: every category of the batch has the same categoryAvgSpending, the
\* mean of the per-category totals of absolute amounts; a transaction gets the
\* 20 category points iff the total of its category is greater than 1.4
\* times that average, so the transactions of one category get the same
\* outcome.
C24_CategorySpike ==
    StatsReady =>
        /\ DOMAIN stats.categoryAvgSpending = BatchCategoryNames
        /\ \A c \in BatchCategoryNames :
              /\ stats.categoryTotals[c] = TotalOfCategory(c)
              /\ stats.categoryAvgSpending[c].n * Cardinality(BatchCategoryNames)
                    = TotalOfAll * stats.categoryAvgSpending[c].d
        /\ \A i \in DOMAIN analyzed :
              analyzed[i].anomalyScore
                 = AmountAndHourPoints(transactions[i])
                   + FrequencySpikeSignal(NoSignals, stats).score
                   + (IF CategoryAboveAverage(transactions[i].category)
                      THEN POINTS_CATEGORY_SPIKE ELSE 0)

\* Food holds 10 and 1, Rent holds 1: the average is 6, Food is above 8.4,
\* and both Food transactions got the 20 points (the first one 30 more for
\* its amount), the Rent transaction none
C24_Witness ==
    /\ stage = "analyze:counted"
    /\ Len(transactions) = 3
    /\ [i \in 1..3 |-> transactions[i].amount] = <<-10, 1, 1>>
    /\ [i \in 1..3 |-> transactions[i].category] = <<"Food", "Food", "Rent">>
    /\ \A i, j \in 1..3 : transactions[i].date = transactions[j].date
    /\ [i \in 1..3 |-> analyzed[i].anomalyScore] = <<50, 20, 0>>

\* The weeks of the dated transactions of the batch
BatchWeekKeys == { transactions[i].date.weekKey : i \in DatedIndexes }

CountInWeek(w) == Cardinality({ i \in DatedIndexes : transactions[i].date.weekKey = w })

\* The greatest week key of the batch (the keys YYYY-Www of four-digit years
\* are ordered as the numbers YYYY * 100 + ww)
GreatestWeekKey == CHOOSE w \in BatchWeekKeys : \A v \in BatchWeekKeys : v <= w

\* currentWeekCount > 1.3 x (dated transactions / distinct weeks)
CurrentWeekAboveAverage ==
    /\ BatchWeekKeys # {}
    /\ 10 * CountInWeek(GreatestWeekKey) * Cardinality(BatchWeekKeys)
          > 13 * Cardinality(DatedIndexes)

\* C25: weeklyAvg is the number of dated transactions divided by the number of
\* distinct week keys, currentWeekCount the count of the greatest week key;
\* the 20 frequency points are given iff currentWeekCount > 1.3 x weeklyAvg,
\* and never when all transactions are in one week.
C25_WeeklyFrequency ==
    StatsReady /\ BatchWeekKeys # {} =>
        /\ stats.weeklyAvg.n * Cardinality(BatchWeekKeys)
              = Cardinality(DatedIndexes) * stats.weeklyAvg.d
        /\ stats.currentWeekCount = CountInWeek(GreatestWeekKey)
        /\ \A i \in DOMAIN analyzed :
              /\ analyzed[i].anomalyScore
                    = AmountAndHourPoints(transactions[i])
                      + CategorySpikeSignal(NoSignals, transactions[i], stats).score
                      + (IF CurrentWeekAboveAverage THEN POINTS_FREQUENCY_SPIKE ELSE 0)
              /\ Cardinality(BatchWeekKeys) = 1 =>
                    analyzed[i].anomalyScore
                       = AmountAndHourPoints(transactions[i])
                         + CategorySpikeSignal(NoSignals, transactions[i], stats).score

\* Two transactions in the later week, then one in the earlier: the average
\* is 3/2, the current week holds 2 > 1.95, and the scores are 20
C25_Witness ==
    /\ stage = "analyze:counted"
    /\ [i \in DOMAIN transactions |-> transactions[i].date.weekKey] = <<202402, 202402, 202401>>
    /\ \A i, j \in 1..3 : /\ transactions[i].amount = transactions[j].amount
                          /\ transactions[i].category = transactions[j].category
                          /\ transactions[i].date.hour = transactions[j].date.hour
    /\ stats.weeklyAvg = Frac(3, 2)
    /\ stats.currentWeekCount = 2
    /\ \A i \in 1..3 : analyzed[i].anomalyScore = POINTS_FREQUENCY_SPIKE

\* C29: within one analyzeTransactions call the frequency points are the same
\* for every transaction, 20 or 0, whichever week the transaction is in.
C29_FrequencyUniform ==
    StatsReady =>
        \E points \in {0, POINTS_FREQUENCY_SPIKE} :
            \A i \in DOMAIN analyzed :
                analyzed[i].anomalyScore
                   = AmountAndHourPoints(transactions[i])
                     + CategorySpikeSignal(NoSignals, transactions[i], stats).score
                     + points

\* The transaction of the earlier week, scored between two of the later week,
\* got the 20 points as they did
C29_Witness ==
    /\ stage = "analyze:counted"
    /\ [i \in DOMAIN transactions |-> transactions[i].date.weekKey] = <<202402, 202401, 202402>>
    /\ \A i, j \in 1..3 : /\ transactions[i].amount = transactions[j].amount
                          /\ transactions[i].category = transactions[j].category
                          /\ transactions[i].date.hour = transactions[j].date.hour
    /\ analyzed[2].anomalyScore = POINTS_FREQUENCY_SPIKE
    /\ analyzed[1].anomalyScore = analyzed[2].anomalyScore
    /\ analyzed[3].anomalyScore = analyzed[2].anomalyScore

\* C27: every transaction returned by normalizeRows has type debit and an
\* amount below zero, or type credit and an amount above zero, with one amount
\* column and with debit and credit columns.
C27_TypeAgreesWithSign ==
    \A t \in Outputs :
        \/ t.type = "debit" /\ t.amount < 0
        \/ t.type = "credit" /\ t.amount > 0

\* The type is never unknown, and agrees with the sign of every amount that
\* is not zero after rounding
TypeAgreesWithSignUnlessZero ==
    \A t \in Outputs :
        /\ t.type \in {"debit", "credit"}
        /\ t.amount < 0 => t.type = "debit"
        /\ t.amount > 0 => t.type = "credit"

(***************************************************************************)
(* Amount deviation in small batches: analyzeTransactions on batches of 2  *)
(* to MaxDeviationBatch transactions that differ only in their amounts     *)
(* (one hour, one category, one week), so that a score is the points of    *)
(* the z-score signal plus those of the high-value signal.                 *)
(***************************************************************************)
MaxDeviationBatch == 6

DeviationAmounts == {1, -2, 7, 30}

DeviationBatch(amounts) ==
    [i \in DOMAIN amounts |->
        [date |-> [valid |-> TRUE, hour |-> 14, weekKey |-> 202401],
         amount |-> amounts[i],
         type |-> IF amounts[i] < 0 THEN "debit" ELSE "credit",
         category |-> "Food",
         description |-> "",
         metadata |-> [Category |-> "Food"],
         anomalyScore |-> 0,
         riskLevel |-> "Normal"]]

InitDeviation ==
    /\ stage = "analyze:call"
    /\ transactions \in { DeviationBatch(amounts) :
                            amounts \in UNION { [1..n -> DeviationAmounts] : n \in 2..MaxDeviationBatch } }
    /\ analyzed = <<>>
    /\ normalCount = 0 /\ mediumCount = 0 /\ highCount = 0
    /\ riskDistribution = Idle
    /\ stats = Idle
    /\ transaction = Idle /\ risk = Idle /\ probe = Idle
    /\ ColumnsIdle
    /\ NormIdle
    /\ UploadIdle

SpecDeviation == InitDeviation /\ [][NextBatch]_vars

\* N * |amount| - (sum of the absolute amounts), N the size of the batch:
\* N times the deviation of the transaction from the mean
ScaledDeviation(i) == Len(transactions) * Abs(transactions[i].amount) - TotalOfAll

SumOfSquaredDeviations ==
    SumSeq([j \in DOMAIN transactions |-> ScaledDeviation(j) * ScaledDeviation(j)])

\* | |amount| - mean | > 2 x stdDev for the population standard deviation,
\* squared and cleared of denominators
DeviatesByTwoStdDev(i) ==
    Len(transactions) * ScaledDeviation(i) * ScaledDeviation(i) > 4 * SumOfSquaredDeviations

\* C30: in a batch of 2 to 5 transactions no transaction has
\* | |amount| - mean | > 2 x stdDev, and none gets the moderate or the extreme
\* z-score points: its score is 0 or the high-value points alone; a
\* transaction with z-score points is in a batch of at least 6.
C30_NoZScoreUpTo5 ==
    StatsReady =>
        /\ Len(transactions) <= 5 =>
              /\ \A i \in DOMAIN transactions : ~DeviatesByTwoStdDev(i)
              /\ \A i \in DOMAIN analyzed : analyzed[i].anomalyScore \in {0, POINTS_HIGH_VALUE}
        /\ \A i \in DOMAIN analyzed :
              analyzed[i].anomalyScore \notin {0, POINTS_HIGH_VALUE} => Len(transactions) >= 6

\* Five transactions of 1 and one of 30: the deviation of the last is the
\* square root of 5 times the standard deviation, and it got the moderate
\* z-score points and the high-value points
C30_Witness ==
    /\ stage = "analyze:counted"
    /\ [i \in DOMAIN transactions |-> transactions[i].amount] = <<1, 1, 1, 1, 1, 30>>
    /\ DeviatesByTwoStdDev(6)
    /\ analyzed[6].anomalyScore = POINTS_ZSCORE_MODERATE + POINTS_HIGH_VALUE
    /\ \A i \in 1..5 : analyzed[i].anomalyScore = 0

\* Four transactions of 1 and one of 30 scored: the deviation of the last is
\* twice the standard deviation, not more, and it got the high-value points only
BatchOfFiveAtTwoStdDev ==
    /\ stage = "analyze:counted"
    /\ [i \in DOMAIN transactions |-> transactions[i].amount] = <<1, 1, 1, 1, 30>>
    /\ Len(transactions) * ScaledDeviation(5) * ScaledDeviation(5) = 4 * SumOfSquaredDeviations
    /\ analyzed[5].anomalyScore = POINTS_HIGH_VALUE

(***************************************************************************)
(* uploadStatement from the arrival of the request: the file test, the     *)
(* extension test and parseCSV, then the steps of the upload above.  The   *)
(* route lets through the files whose extension is .csv or .pdf in any     *)
(* case, and requests without a file.                                      *)
(***************************************************************************)
RequestFileNames == {"statement.csv", "Statement.CSV", "report.pdf", "export.csv.pdf"}

MaxRequestRows == 2

\* What parseCSV resolves with: the headers and the rows that are not empty
ParsedFiles ==
    { [headers |-> <<>>, rows |-> <<>>] }
    \cup UNION { { [headers |-> hs, rows |-> rs] : rs \in [1..n -> UploadRowsFor(hs)] } :
                    hs \in UploadHeaderLists, n \in 0..MaxRequestRows }

InitRequest ==
    /\ stage = "upload:received"
    /\ file \in {NoFile} \cup { RequestFile(name) : name \in RequestFileNames }
    /\ cleanups = <<>> /\ sent = 0
    /\ headers = <<>> /\ rows = <<>>
    /\ tzHours \in TimeZones
    /\ position = 0
    /\ normalized = <<>>
    /\ mapping = <<>> /\ usedHeaders = {}
    /\ detection = Idle /\ previous = Idle /\ calls = Idle
    /\ stats = Idle
    /\ transaction = Idle /\ risk = Idle /\ probe = Idle
    /\ transactions = <<>> /\ analyzed = <<>>
    /\ normalCount = Idle /\ mediumCount = Idle /\ highCount = Idle
    /\ riskDistribution = Idle
    /\ stored = <<>>
    /\ response = NoResponse

\* uploadStatement up to the call of parseCSV: the request without a file is
\* answered 400, the file that is not a .csv is cleaned up and answered 400
UploadValidateFile ==
    /\ stage = "upload:received"
    /\ IF ~file.present
       THEN /\ response' = [status |-> 400,
                            body |-> [success |-> FALSE,
                                      error |-> "No file uploaded. Please upload a CSV file."]]
            /\ sent' = sent + 1
            /\ stage' = "upload:responded"
            /\ UNCHANGED cleanups
       ELSE IF ToLowerCase(ExtName(file.originalname)) # ".csv"
       THEN /\ cleanups' = cleanupFile(cleanups, file.path)
            /\ response' = [status |-> 400,
                            body |-> [success |-> FALSE, error |-> "Only CSV files are supported."]]
            /\ sent' = sent + 1
            /\ stage' = "upload:responded"
       ELSE /\ stage' = "upload:parsing"
            /\ UNCHANGED <<response, sent, cleanups>>
    /\ UNCHANGED <<stats, riskVars, batchVars, columnVars, normVars, stored, file>>

\* await parseCSV(filePath) resolves: a file without rows is cleaned up and
\* answered 400
UploadParseCSV ==
    /\ stage = "upload:parsing"
    /\ \E parsed \in ParsedFiles :
          /\ headers' = parsed.headers
          /\ rows' = parsed.rows
          /\ IF Len(parsed.rows) = 0
             THEN /\ cleanups' = cleanupFile(cleanups, file.path)
                  /\ response' = [status |-> 400,
                                  body |-> [success |-> FALSE,
                                            error |-> "CSV file is empty or contains no valid data rows."]]
                  /\ sent' = sent + 1
                  /\ stage' = "upload:responded"
             ELSE /\ stage' = "upload:parsed"
                  /\ UNCHANGED <<response, sent, cleanups>>
    /\ UNCHANGED <<stats, riskVars, batchVars, mapping, usedHeaders, detection, previous, calls,
                   tzHours, position, normalized, stored, file>>

\* await parseCSV(filePath) rejects: the catch block cleans up and answers 500
UploadParseFails ==
    /\ stage = "upload:parsing"
    /\ cleanups' = IF file.path # "" THEN cleanupFile(cleanups, file.path) ELSE cleanups
    /\ response' = ErrorResponse
    /\ sent' = sent + 1
    /\ stage' = "upload:responded"
    /\ UNCHANGED <<stats, riskVars, batchVars, columnVars, normVars, stored, file>>

NextRequest ==
    \/ UploadValidateFile \/ UploadParseCSV \/ UploadParseFails
    \/ UploadDetectColumns \/ NormalizeNextRow \/ NormalizeReturn
    \/ UploadNoTransactions \/ UploadAnalyze \/ UploadStore \/ UploadStoreFails \/ UploadRespond

SpecRequest == InitRequest /\ [][NextRequest]_vars

\* The request has ended: a response was sent on the last step
RequestEnded == stage \in {"upload:responded", "upload:rejected"}

RequestStages ==
    {"upload:received", "upload:parsing", "upload:parsed", "normalize:loop", "normalize:returned",
     "upload:analyzed", "upload:stored", "upload:responded", "upload:rejected"}

\* The loop of normalizeRows passes its next row
LoopAdvances ==
    /\ stage = "normalize:loop"
    /\ position <= Len(rows)
    /\ position' = position + 1

\* The request that has not ended, outside the rows of the loop, moves to
\* another stage
StageAdvances ==
    /\ ~RequestEnded
    /\ stage = "normalize:loop" => position > Len(rows)
    /\ stage' \in RequestStages \ {stage}

\* uploadStatement is one async function: each step is the continuation of
\* the one before and runs once the one before is done, and the promises of
\* parseCSV and Transaction.insertMany settle
SpecRequestFair ==
    InitRequest /\ [][NextRequest]_vars /\ WF_stage(StageAdvances) /\ WF_position(LoopAdvances)

\* One response at the end and none before; the path of the file of the
\* request has been given to cleanupFile by then; documents are stored only
\* when the file was parsed to rows, the columns were detected, transactions
\* were normalized and analyzeTransactions returned them analysed
RequestSafe ==
    /\ sent = (IF RequestEnded THEN 1 ELSE 0)
    /\ RequestEnded /\ file.present => file.path \in Range(cleanups)
    /\ stored # <<>> =>
          /\ Len(rows) > 0
          /\ ~detection.thrown
          /\ Len(normalized) > 0
          /\ transactions = WithBatchId(normalized)
          /\ analyzed = analyzeTransactions(transactions)
          /\ stored = analyzed

\* Transaction.insertMany stores documents on the step after the analysis only
InsertAfterAnalysis ==
    stored' # stored => stage = "upload:analyzed" /\ Len(analyzed) > 0 /\ stored' = analyzed

\* C28: every upload request ends; it ends with exactly one response sent,
\* and when it carried a file cleanupFile has been called on the path of the
\* file by then, whether the request ends on the extension, the empty file,
\* the detection failure, the lack of valid transactions, the success, or the
\* rejection of parseCSV or of insertMany; and documents are inserted only
\* after parsing, column detection, normalization and analysis succeeded.
C28_OneResponseAfterCleanup ==
    /\ []RequestSafe
    /\ [][InsertAfterAnalysis]_vars
    /\ <>RequestEnded

\* The request whose insertMany was rejected has ended with the response 500,
\* sent once, after cleanupFile was called on the path of its file
C28_Witness ==
    /\ stage = "upload:responded"
    /\ response = ErrorResponse
    /\ Len(analyzed) > 0 /\ stored = <<>>
    /\ sent = 1
    /\ cleanups = <<file.path>>

====
